---- MODULE Spec2Model ----
(***************************************************************************)
(* A model of the OBD-II diagnostic summarisation pipeline of obd_agent:   *)
(* the anomaly detector (anomaly_detector.py) and the rule-based clue      *)
(* generator (clue_generator.py).                                          *)
(*                                                                         *)
(* Numbers.  Signal values are naturals; NaN is the value -1.  Scores are  *)
(* exact rationals <<n, d>> with d > 0 in lowest terms, so that a mean or  *)
(* a threshold comparison is decided exactly.  Timestamps are seconds      *)
(* after the first index entry.                                            *)
(***************************************************************************)
EXTENDS Integers, Sequences, FiniteSets, TLC

VARIABLES
    \* ---- detect_anomalies -------------------------------------------
    ts,            \* the NormalizedTimeSeries passed to detect_anomalies
    params,        \* min_segment_length and contamination of the call
    adPc,          \* position inside detect_anomalies
    columns,       \* result of _filter_variable_columns
    cp_events,     \* result of _detect_changepoints
    if_events,     \* result of _detect_multivariate_outliers
    report,        \* the AnomalyReport returned (NoReport before the return)
    \* ---- generate_clues / _load_rules -------------------------------
    cgIn,          \* the stats, anomalies and rule list shared by the callers
    cgCall,        \* per-call state of each generate_clues invocation
    heap,          \* the _TemplateContext objects, by object identity
    ruleFile,      \* the parsed content of the YAML file given to _load_rules
    loaded,        \* outcome of _load_rules
    \* ---- parse_log_file / normalize_rows / extract_statistics -------
    logFile,       \* the lines of the log file given to parse_log_file
    parsed,        \* outcome of parse_log_file
    nzIn,          \* the arguments of normalize_rows
    nzOut,         \* outcome of normalize_rows
    statistics,    \* outcome of extract_statistics
    \* ---- _merge_overlapping_events on its own ------------------------
    mgIn,          \* the event list given to _merge_overlapping_events
    mgOut,         \* the list it returns
    mgAgain        \* the list it returns when given mgOut

adVars == <<ts, params, adPc, columns, cp_events, if_events, report>>
cgVars == <<cgIn, cgCall, heap>>
ldVars == <<ruleFile, loaded>>
pipeVars == <<logFile, parsed, nzIn, nzOut, statistics>>
mgVars == <<mgIn, mgOut, mgAgain>>
vars == <<ts, params, adPc, columns, cp_events, if_events, report,
          cgIn, cgCall, heap, ruleFile, loaded,
          logFile, parsed, nzIn, nzOut, statistics,
          mgIn, mgOut, mgAgain>>

(***************************************************************************)
(* Generic helpers.                                                        *)
(***************************************************************************)
Min2(a, b) == IF a <= b THEN a ELSE b
Max2(a, b) == IF a >= b THEN a ELSE b
Abs(a) == IF a < 0 THEN -a ELSE a
Range(s) == {s[i] : i \in 1..Len(s)}
NoDup(s) == \A i, j \in 1..Len(s) : i # j => s[i] # s[j]

RECURSIVE SumSeq(_)
SumSeq(s) == IF s = <<>> THEN 0 ELSE Head(s) + SumSeq(Tail(s))

RECURSIVE SumSq(_)
SumSq(s) == IF s = <<>> THEN 0 ELSE Head(s) * Head(s) + SumSq(Tail(s))

RECURSIVE DropValue(_, _)
DropValue(s, v) ==
    IF s = <<>> THEN <<>>
    ELSE IF Head(s) = v THEN DropValue(Tail(s), v)
    ELSE <<Head(s)>> \o DropValue(Tail(s), v)

RECURSIVE SetToSortedSeq(_)
SetToSortedSeq(S) ==
    IF S = {} THEN <<>>
    ELSE LET m == CHOOSE x \in S : \A y \in S : x <= y
         IN <<m>> \o SetToSortedSeq(S \ {m})

\* Exact rationals.
RECURSIVE GCD(_, _)
GCD(a, b) == IF b = 0 THEN a ELSE GCD(b, a % b)

Rat(n, d) ==
    LET g == GCD(Abs(n), d) IN <<n \div g, d \div g>>
RLe(a, b) == a[1] * b[2] <= b[1] * a[2]
RLt(a, b) == a[1] * b[2] < b[1] * a[2]
RAdd(a, b) == Rat(a[1] * b[2] + b[1] * a[2], a[2] * b[2])
RHalf(a) == Rat(a[1], 2 * a[2])
RMul(a, b) == Rat(a[1] * b[1], a[2] * b[2])
RMin(a, b) == IF RLe(a, b) THEN a ELSE b
RMax(a, b) == IF RLe(a, b) THEN b ELSE a
RZero == <<0, 1>>
ROne == <<1, 1>>

(***************************************************************************)
(* anomaly_detector.py: constants.                                         *)
(***************************************************************************)
NaN == -1

_CRITICAL_SIGNALS ==
    {"engine_rpm", "vehicle_speed", "coolant_temperature", "short_fuel_trim_1",
     "long_fuel_trim_1", "engine_load", "throttle_position", "mass_airflow"}

_MIN_ROWS_CHANGEPOINT == 20
_MIN_ROWS_ISOLATION_FOREST == 30
_RPM_OFF == 50
_SPEED_MOVING == 5
_THROTTLE_CRUISE_STD == 3
TopSignals == 5

Contexts == {"off", "idle", "cruise", "acceleration", "unknown"}
Severities == {"low", "medium", "high"}
Detectors == {"changepoint", "isolation_forest", "combined"}

(***************************************************************************)
(* The data frame.  Columns are kept in the frame's column order.  A       *)
(* column is described by a profile: it is absent from the frame, or its   *)
(* cell at row i (0-based) is NaN for i < nullUntil, lo for i < at and hi  *)
(* from row at on.                                                         *)
(***************************************************************************)
FrameColumns == <<"engine_rpm", "vehicle_speed", "throttle_position", "o2_b1s2">>

Profile(present, nullUntil, lo, hi, at) ==
    [present |-> present, nullUntil |-> nullUntil, lo |-> lo, hi |-> hi, at |-> at]

Cell(p, i) ==
    IF i < p.nullUntil THEN NaN ELSE IF i < p.at THEN p.lo ELSE p.hi

IsPresent(t, c) == t.cols[c].present
DfColumns(t) == SelectSeq(FrameColumns, LAMBDA c : IsPresent(t, c))

\* df[col].values for rows lo..hi (0-based, inclusive), as a sequence
ColumnValues(t, c, lo, hi) ==
    [k \in 1..(IF hi >= lo THEN hi - lo + 1 ELSE 0) |-> Cell(t.cols[c], lo + k - 1)]

DropNa(s) == DropValue(s, NaN)

\* pd.Series.ffill().bfill()
RECURSIVE FFillFrom(_, _)
FFillFrom(s, last) ==
    IF s = <<>> THEN <<>>
    ELSE LET v == IF Head(s) = NaN THEN last ELSE Head(s)
         IN <<v>> \o FFillFrom(Tail(s), v)
FFill(s) == FFillFrom(s, NaN)
Reverse(s) == [i \in 1..Len(s) |-> s[Len(s) + 1 - i]]
BFill(s) == Reverse(FFill(Reverse(s)))

SeqMax(s) == CHOOSE x \in Range(s) : \A y \in Range(s) : y <= x
SeqMin(s) == CHOOSE x \in Range(s) : \A y \in Range(s) : x <= y

\* index[i].to_pydatetime(), in seconds after index[0]
IndexTime(t, i) == i * t.interval

(***************************************************************************)
(* AnomalyEvent.  pattern is the sequence of the descriptions joined by    *)
(* "; " in the pattern string; a detector's event has one description.     *)
(***************************************************************************)
AnomalyEvent(start, end, signals, pattern, context, severity, detector, score) ==
    [time_window |-> <<start, end>>, signals |-> signals, pattern |-> pattern,
     context |-> context, severity |-> severity, detector |-> detector,
     score |-> score]

PatternText(kind, signals, size, score) ==
    <<[kind |-> kind, signals |-> signals, size |-> size, score |-> score]>>

\* _filter_variable_columns: neither all-NaN nor constant
IsVariable(t, c) ==
    LET series == DropNa(ColumnValues(t, c, 0, t.nrows - 1))
    IN Len(series) # 0 /\ Cardinality(Range(series)) > 1

_filter_variable_columns(t) ==
    SelectSeq(DfColumns(t), LAMBDA c : IsVariable(t, c))

\* _infer_driving_context on the rows w_start..w_end of the frame
_infer_driving_context(t, w_start, w_end) ==
    IF ~IsPresent(t, "engine_rpm") \/ ~IsPresent(t, "vehicle_speed") THEN "unknown"
    ELSE
    LET rpm_vals == DropNa(ColumnValues(t, "engine_rpm", w_start, w_end))
        speed_vals == DropNa(ColumnValues(t, "vehicle_speed", w_start, w_end))
        throttle_vals == DropNa(ColumnValues(t, "throttle_position", w_start, w_end))
        n == Len(throttle_vals)
    IN IF Len(rpm_vals) = 0 \/ Len(speed_vals) = 0 THEN "unknown"
       \* mean_rpm < _RPM_OFF
       ELSE IF SumSeq(rpm_vals) < _RPM_OFF * Len(rpm_vals) THEN "off"
       \* mean_speed < _SPEED_MOVING
       ELSE IF SumSeq(speed_vals) < _SPEED_MOVING * Len(speed_vals) THEN "idle"
       ELSE IF IsPresent(t, "throttle_position") /\ n >= 2
            \* population std <= _THROTTLE_CRUISE_STD, compared as variances
            THEN IF n * SumSq(throttle_vals) - SumSeq(throttle_vals) * SumSeq(throttle_vals)
                      <= _THROTTLE_CRUISE_STD * _THROTTLE_CRUISE_STD * n * n
                 THEN "cruise" ELSE "acceleration"
       ELSE "unknown"

\* the tier of the score alone
SeverityOfScore(n_signals, score, duration_seconds, has_critical) ==
    IF RLe(<<66, 100>>, score) THEN "high"
    ELSE IF RLe(<<33, 100>>, score) THEN "medium"
    ELSE "low"

\* _compute_severity: 0.40 score + 0.25 signals + 0.15 duration + 0.20 critical
_compute_severity(n_signals, score, duration_seconds, has_critical) ==
    LET score_norm == RMax(RZero, RMin(ROne, score))
        signal_norm == RMin(ROne, Rat(n_signals, 8))
        duration_norm == RMin(ROne, Rat(duration_seconds, 300))
        critical_norm == IF has_critical THEN ROne ELSE RZero
        composite0 == RAdd(RAdd(RMul(<<40, 100>>, score_norm), RMul(<<25, 100>>, signal_norm)),
                           RAdd(RMul(<<15, 100>>, duration_norm), RMul(<<20, 100>>, critical_norm)))
        composite == RMax(RZero, RMin(ROne, composite0))
    IN IF RLe(<<66, 100>>, composite) THEN "high"
       ELSE IF RLe(<<33, 100>>, composite) THEN "medium"
       ELSE "low"

\* _find_contiguous_runs: mask is a sequence of booleans (row i is mask[i+1]);
\* the runs are <<start, end>> pairs of 0-based rows, end inclusive
RECURSIVE RunsFrom(_, _, _, _)
RunsFrom(mask, i, in_run, start) ==
    IF i > Len(mask)
    THEN IF in_run THEN <<(<<start, Len(mask) - 1>>)>> ELSE <<>>
    ELSE IF mask[i] /\ ~in_run THEN RunsFrom(mask, i + 1, TRUE, i - 1)
    ELSE IF ~mask[i] /\ in_run
         THEN <<(<<start, i - 2>>)>> \o RunsFrom(mask, i + 1, FALSE, start)
    ELSE RunsFrom(mask, i + 1, in_run, start)

_find_contiguous_runs(mask) ==
    IF Len(mask) = 0 THEN <<>> ELSE RunsFrom(mask, 1, FALSE, 0)

(***************************************************************************)
(* The two library searches.  ruptures' Pelt and scikit-learn's            *)
(* IsolationForest are not part of the repository: the model takes every   *)
(* result they can hand back within the bounds below.                      *)
(***************************************************************************)
BreakStep == 10       \* break indices offered to the model: multiples of BreakStep
MaxBreaks == 1        \* most break indices of one column, the final n aside
MaxOutliers == 2      \* most rows IsolationForest labels -1

\* algo.predict(pen): raises, or returns break indices that end with n
PeltOutcomes(n) ==
    {[raised |-> TRUE, bkps |-> {}]} \cup
    {[raised |-> FALSE, bkps |-> B \cup {n}] :
        B \in {X \in SUBSET {b \in 1..(n - 1) : b % BreakStep = 0} :
                  Cardinality(X) <= MaxBreaks}}

\* iso.fit_predict: the rows labelled -1
OutlierRows(n) == {4, 14, 15}
OutlierMasks(n) ==
    {[i \in 1..n |-> (i - 1) \in O] :
        O \in {X \in SUBSET OutlierRows(n) : Cardinality(X) <= MaxOutliers}}

\* -np.mean(iso.decision_function(rows)) before clipping
RawScores == {<<-1, 4>>, <<1, 2>>, <<5, 4>>}

\* mean_abs_z.nlargest(k): the columns ranked by mean absolute z-score
Rankings(used_cols) == {used_cols, Reverse(used_cols)}

(***************************************************************************)
(* _detect_changepoints                                                    *)
(***************************************************************************)
ChangepointEvent(t, col, filled, signal_range, min_segment_length, bp) ==
    LET n == t.nrows
        half_window == Max2(min_segment_length \div 2, 2)
        w_start == Max2(0, bp - half_window)
        w_end == Min2(n - 1, bp + half_window - 1)
        left == SubSeq(filled, Max2(0, bp - half_window) + 1, bp)
        right == SubSeq(filled, bp + 1, Min2(n, bp + half_window))
    IN IF Len(left) = 0 \/ Len(right) = 0 THEN <<>>
       ELSE
       LET \* |mean(right) - mean(left)| as a fraction
           shift == Rat(Abs(SumSeq(right) * Len(left) - SumSeq(left) * Len(right)),
                        Len(left) * Len(right))
           score == RMin(ROne, RMul(shift, <<1, signal_range>>))
           start_time == IndexTime(t, w_start)
           end_time == IndexTime(t, w_end)
           duration == end_time - start_time
           context == _infer_driving_context(t, w_start, w_end)
           has_critical == col \in _CRITICAL_SIGNALS
           severity == _compute_severity(1, score, duration, has_critical)
       IN <<AnomalyEvent(start_time, end_time, <<col>>,
                         PatternText("Change-point", <<col>>, shift, score),
                         context, severity, "changepoint", score)>>

RECURSIVE BreakEvents(_, _, _, _, _, _)
BreakEvents(t, col, filled, signal_range, min_segment_length, breakpoints) ==
    IF breakpoints = <<>> THEN <<>>
    ELSE ChangepointEvent(t, col, filled, signal_range, min_segment_length,
                          Head(breakpoints))
         \o BreakEvents(t, col, filled, signal_range, min_segment_length,
                        Tail(breakpoints))

\* the column passes the two `continue` gates before rpt.Pelt(...).fit
SearchRuns(t, col) ==
    LET series == ColumnValues(t, col, 0, t.nrows - 1)
        filled == BFill(FFill(series))
    IN /\ ~(Len(DropNa(series)) < _MIN_ROWS_CHANGEPOINT)
       /\ ~(SeqMax(filled) - SeqMin(filled) = 0)

ColumnChangepoints(t, col, min_segment_length, pelt) ==
    LET series == ColumnValues(t, col, 0, t.nrows - 1)
        filled == BFill(FFill(series))
    IN IF ~SearchRuns(t, col) THEN <<>>
       ELSE IF pelt.raised THEN <<>>
       ELSE BreakEvents(t, col, filled, SeqMax(filled) - SeqMin(filled),
                        min_segment_length,
                        SetToSortedSeq({bp \in pelt.bkps : bp < t.nrows}))

RECURSIVE ChangepointLoop(_, _, _, _)
ChangepointLoop(t, cols, min_segment_length, pelt) ==
    IF cols = <<>> THEN <<>>
    ELSE ColumnChangepoints(t, Head(cols), min_segment_length, pelt[Head(cols)])
         \o ChangepointLoop(t, Tail(cols), min_segment_length, pelt)

_detect_changepoints(t, cols, min_segment_length, pelt) ==
    IF t.nrows < _MIN_ROWS_CHANGEPOINT THEN <<>>
    ELSE ChangepointLoop(t, cols, min_segment_length, pelt)

(***************************************************************************)
(* _detect_multivariate_outliers                                           *)
(***************************************************************************)
ClipScoreBelowOnly(raw) == RMax(RZero, raw)
ClipScore(raw) == RMax(RZero, RMin(ROne, raw))

OutlierEvent(t, run, ranking, raw) ==
    LET run_start == run[1]
        run_end == run[2]
        top_signals == SubSeq(ranking, 1, Min2(TopSignals, Len(ranking)))
        start_time == IndexTime(t, run_start)
        end_time == IndexTime(t, run_end)
        duration == end_time - start_time
        context == _infer_driving_context(t, run_start, run_end)
        score == ClipScore(raw)
        has_critical == \E i \in 1..Len(top_signals) : top_signals[i] \in _CRITICAL_SIGNALS
        severity == _compute_severity(Len(top_signals), score, duration, has_critical)
    IN AnomalyEvent(start_time, end_time, top_signals,
                    PatternText("Multivariate outlier", top_signals,
                                <<run_end - run_start + 1, 1>>, score),
                    context, severity, "isolation_forest", score)

\* mat.ffill().bfill().dropna(axis=1, how="all").columns
UsedCols(t, cols) ==
    SelectSeq(cols, LAMBDA c :
        DropNa(BFill(FFill(ColumnValues(t, c, 0, t.nrows - 1)))) # <<>>)

\* the detector without its row-count gate
OutliersWithoutRowGate(t, cols, mask, ranking, raw) ==
    LET used_cols == UsedCols(t, cols)
        runs == _find_contiguous_runs(mask)
    IN IF Len(cols) < 2 THEN <<>>
       ELSE IF Len(used_cols) < 2 THEN <<>>
       ELSE IF ~(\E i \in 1..Len(mask) : mask[i]) THEN <<>>
       ELSE [k \in 1..Len(runs) |-> OutlierEvent(t, runs[k], ranking, raw[k])]

_detect_multivariate_outliers(t, cols, mask, ranking, raw) ==
    LET used_cols == UsedCols(t, cols)
        runs == _find_contiguous_runs(mask)
    IN IF t.nrows < _MIN_ROWS_ISOLATION_FOREST THEN <<>>
       ELSE IF Len(cols) < 2 THEN <<>>
       ELSE IF Len(used_cols) < 2 THEN <<>>
       ELSE IF ~(\E i \in 1..Len(mask) : mask[i]) THEN <<>>
       ELSE [k \in 1..Len(runs) |-> OutlierEvent(t, runs[k], ranking, raw[k])]

(***************************************************************************)
(* _merge_overlapping_events                                               *)
(***************************************************************************)
\* sorted(events, key=start): a stable sort
RECURSIVE InsertByStart(_, _)
InsertByStart(sorted, e) ==
    IF sorted = <<>> THEN <<e>>
    ELSE IF e.time_window[1] < Head(sorted).time_window[1]
         THEN <<e>> \o sorted
    ELSE <<Head(sorted)>> \o InsertByStart(Tail(sorted), e)

\* the events in the order given
Unsorted(events) == events

RECURSIVE SortByStart(_)
SortByStart(events) ==
    IF events = <<>> THEN <<>>
    ELSE InsertByStart(SortByStart(SubSeq(events, 1, Len(events) - 1)),
                       events[Len(events)])

\* tuple(s): every occurrence kept
KeepAll(s) == s

\* tuple(dict.fromkeys(s)): first occurrences, in order
RECURSIVE Dedup(_)
Dedup(s) ==
    IF s = <<>> THEN <<>>
    ELSE LET front == Dedup(SubSeq(s, 1, Len(s) - 1))
             last == s[Len(s)]
         IN IF last \in Range(front) THEN front ELSE Append(front, last)

OverlapsStrict(current, nxt) == nxt.time_window[1] < current.time_window[2]
Overlaps(current, nxt) == nxt.time_window[1] <= current.time_window[2]

MergedScore(current, nxt) == RHalf(RAdd(current.score, nxt.score))

\* the label of the later event
LaterDetector(current, nxt) == nxt.detector

MergedDetector(current, nxt) ==
    IF current.detector # nxt.detector THEN "combined" ELSE current.detector

MergePair(current, nxt) ==
    LET new_start == Min2(current.time_window[1], nxt.time_window[1])
        new_end == Max2(current.time_window[2], nxt.time_window[2])
        new_signals == Dedup(current.signals \o nxt.signals)
        new_score == MergedScore(current, nxt)
        new_detector == MergedDetector(current, nxt)
        new_pattern == current.pattern \o nxt.pattern
        duration == new_end - new_start
        has_critical == \E i \in 1..Len(new_signals) : new_signals[i] \in _CRITICAL_SIGNALS
        new_severity == _compute_severity(Len(new_signals), new_score, duration,
                                          has_critical)
    IN AnomalyEvent(new_start, new_end, new_signals, new_pattern, current.context,
                    new_severity, new_detector, new_score)

RECURSIVE MergeWalk(_, _, _)
MergeWalk(merged, current, rest) ==
    IF rest = <<>> THEN Append(merged, current)
    ELSE IF Overlaps(current, Head(rest))
         THEN MergeWalk(merged, MergePair(current, Head(rest)), Tail(rest))
    ELSE MergeWalk(Append(merged, current), Head(rest), Tail(rest))

_merge_overlapping_events(events) ==
    IF Len(events) <= 1 THEN events
    ELSE LET sorted_events == SortByStart(events)
         IN MergeWalk(<<>>, Head(sorted_events), Tail(sorted_events))

(***************************************************************************)
(* detect_anomalies                                                        *)
(***************************************************************************)
NoReport == [events |-> <<>>, vehicle_id |-> "", time_range |-> <<0, 0>>,
             dtc_codes |-> <<>>, detection_params |-> <<>>, returned |-> FALSE]

AnomalyReport(events, t, p) ==
    [events |-> events, vehicle_id |-> t.vehicle_id, time_range |-> t.time_range,
     dtc_codes |-> t.dtc_codes, detection_params |-> p, returned |-> TRUE]

\* only the contamination is validated
ParamsValidContaminationOnly(p) ==
    RLt(RZero, p.contamination) /\ RLe(p.contamination, <<1, 2>>)

ParamsValid(p) ==
    /\ RLt(RZero, p.contamination) /\ RLe(p.contamination, <<1, 2>>)
    /\ p.min_segment_length >= 2

\* the checks and early returns before the detectors run
DetectAnomaliesEnter ==
    /\ adPc = "call"
    /\ IF ~ParamsValid(params)
       THEN adPc' = "raised" /\ UNCHANGED <<columns, report>>
       ELSE IF DfColumns(ts) = <<>> \/ ts.nrows = 0 \/ ts.nrows < _MIN_ROWS_CHANGEPOINT
       THEN /\ report' = AnomalyReport(<<>>, ts, params)
            /\ adPc' = "done"
            /\ UNCHANGED columns
       ELSE /\ columns' = _filter_variable_columns(ts)
            /\ IF columns' = <<>>
               THEN report' = AnomalyReport(<<>>, ts, params) /\ adPc' = "done"
               ELSE adPc' = "changepoints" /\ UNCHANGED report
    /\ UNCHANGED <<ts, params, cp_events, if_events, cgVars, ldVars, pipeVars, mgVars>>

RunChangepoints ==
    /\ adPc = "changepoints"
    /\ \E pelt \in [Range(columns) -> PeltOutcomes(ts.nrows)] :
          cp_events' = _detect_changepoints(ts, columns, params.min_segment_length, pelt)
    /\ adPc' = "outliers"
    /\ UNCHANGED <<ts, params, columns, if_events, report, cgVars, ldVars, pipeVars, mgVars>>

RunOutliers ==
    /\ adPc = "outliers"
    /\ \E mask \in OutlierMasks(ts.nrows), ranking \in Rankings(UsedCols(ts, columns)) :
         \E raw \in [1..Len(_find_contiguous_runs(mask)) -> RawScores] :
            if_events' = _detect_multivariate_outliers(ts, columns, mask, ranking, raw)
    /\ adPc' = "merge"
    /\ UNCHANGED <<ts, params, columns, cp_events, report, cgVars, ldVars, pipeVars, mgVars>>

\* merge, sort by start and return the report
MergeAndReturn ==
    /\ adPc = "merge"
    /\ LET all_events == _merge_overlapping_events(cp_events \o if_events)
       IN report' = AnomalyReport(SortByStart(all_events), ts, params)
    /\ adPc' = "done"
    /\ UNCHANGED <<ts, params, columns, cp_events, if_events, cgVars, ldVars, pipeVars, mgVars>>

\* ---- the inputs of detect_anomalies ------------------------------------
AllNullFrom == _MIN_ROWS_ISOLATION_FOREST + 1
Absent == Profile(FALSE, 0, 0, 0, 0)
AllNull == Profile(TRUE, AllNullFrom, 0, 0, 0)
Const(v) == Profile(TRUE, 0, v, v, 0)
Step(nullUntil, lo, hi, at) == Profile(TRUE, nullUntil, lo, hi, at)

Frame(rpm, speed, throttle, o2) ==
    [c \in Range(FrameColumns) |->
        IF c = "engine_rpm" THEN rpm
        ELSE IF c = "vehicle_speed" THEN speed
        ELSE IF c = "throttle_position" THEN throttle ELSE o2]

Frames ==
    {Frame(Const(0), AllNull, Const(15), Const(1)),               \* nothing varies
     Frame(Step(0, 800, 3000, 10), Const(0), Const(15), Const(1)), \* one variable column
     Frame(Const(800), AllNull, Const(15), Step(0, 0, 1, 15)),     \* only o2 varies
     Frame(Step(0, 800, 3000, 10), Step(0, 0, 60, 10), Const(15), Const(1)),
     Frame(Step(0, 800, 3000, 10), Step(0, 0, 60, 10), Step(0, 10, 40, 12),
           Step(12, 0, 1, 20)),
     Frame(Absent, Step(0, 0, 60, 10), Step(0, 10, 40, 12), Step(0, 0, 1, 15)),
     Frame(Step(8, 0, 800, 15), Step(0, 0, 60, 10), Const(15), Const(1))}

RowCounts == {_MIN_ROWS_CHANGEPOINT - 1, _MIN_ROWS_CHANGEPOINT,
              _MIN_ROWS_ISOLATION_FOREST - 1, _MIN_ROWS_ISOLATION_FOREST}
Intervals == {1, 60}
ParamChoices ==
    {[min_segment_length |-> 10, contamination |-> <<1, 20>>],
     [min_segment_length |-> 4, contamination |-> <<1, 2>>],
     [min_segment_length |-> 1, contamination |-> <<1, 20>>],
     [min_segment_length |-> 10, contamination |-> <<0, 1>>],
     [min_segment_length |-> 10, contamination |-> <<3, 5>>]}

TimeSeries(nrows, interval, frame) ==
    [nrows |-> nrows, interval |-> interval, cols |-> frame,
     vehicle_id |-> "V-TEST1234",
     time_range |-> <<0, (nrows - 1) * interval>>,
     dtc_codes |-> <<"P0300">>]

CgIdle == /\ cgIn = <<>> /\ cgCall = <<>> /\ heap = <<>>
LdIdle == /\ ruleFile = <<>> /\ loaded = <<>>
PipeIdle ==
    /\ logFile = <<>> /\ parsed = <<>> /\ nzIn = <<>> /\ nzOut = <<>>
    /\ statistics = <<>>

MgIdle == mgIn = <<>> /\ mgOut = <<>> /\ mgAgain = <<>>

InitDetect ==
    /\ \E n \in RowCounts, iv \in Intervals, frame \in Frames :
          ts = TimeSeries(n, iv, frame)
    /\ params \in ParamChoices
    /\ adPc = "call"
    /\ columns = <<>>
    /\ cp_events = <<>>
    /\ if_events = <<>>
    /\ report = NoReport
    /\ CgIdle
    /\ LdIdle
    /\ PipeIdle
    /\ MgIdle

NextDetect ==
    \/ DetectAnomaliesEnter
    \/ RunChangepoints
    \/ RunOutliers
    \/ MergeAndReturn

SpecDetect == InitDetect /\ [][NextDetect]_vars

(***************************************************************************)
(* clue_generator.py.  Text (evidence strings, clue text, DTC codes) is a  *)
(* sequence of string tokens; f-strings and joins concatenate tokens.      *)
(***************************************************************************)
_SIGNAL_STATS_FIELDS ==
    {"mean", "std", "min", "max", "p5", "p25", "p50", "p75", "p95",
     "autocorrelation_lag1", "mean_abs_change", "max_abs_change", "energy",
     "entropy", "valid_count"}
OpNames == {"eq", "ne", "lt", "le", "gt", "ge"}
_VALID_CONDITION_TYPES ==
    {"stat_check", "anomaly_check", "dtc_check", "stat_compare", "signal_exists"}
_VALID_SEVERITIES == {"info", "warning", "critical"}
_VALID_CATEGORIES == {"statistical", "anomaly", "interaction", "dtc", "negative_evidence"}

Has(d, key) == key \in DOMAIN d
\* d.get(key, default)
Get(d, key, default) == IF Has(d, key) THEN d[key] ELSE default

\* str() of a number, digit by digit; NaN prints as nan
Digit(n) == <<"0", "1", "2", "3", "4", "5", "6", "7", "8", "9">>[n + 1]
RECURSIVE Digits(_)
Digits(n) == IF n < 10 THEN <<Digit(n)>> ELSE Append(Digits(n \div 10), Digit(n % 10))
Str(n) == IF n = NaN THEN <<"nan">> ELSE Digits(n)
StrBool(b) == IF b THEN <<"True">> ELSE <<"False">>

\* ", ".join(codes)
RECURSIVE Join(_)
Join(codes) ==
    IF codes = <<>> THEN <<>>
    ELSE IF Len(codes) = 1 THEN codes[1]
    ELSE codes[1] \o <<", ">> \o Join(Tail(codes))

\* c.startswith(prefix)
StartsWith(c, prefix) ==
    Len(prefix) <= Len(c) /\ SubSeq(c, 1, Len(prefix)) = prefix

\* _OPS[op_name](a, b)
ApplyOp(op_name, a, b) ==
    IF op_name = "eq" THEN a = b
    ELSE IF op_name = "ne" THEN a # b
    ELSE IF op_name = "lt" THEN a < b
    ELSE IF op_name = "le" THEN a <= b
    ELSE IF op_name = "gt" THEN a > b
    ELSE a >= b

\* every operator name is taken for a known one
AnyOp(op_name) == TRUE

\* _OPS.get(op_name) is not None
KnownOp(op_name) == op_name \in OpNames

NoMatch == [matched |-> FALSE, evidence |-> <<>>]

_eval_stat_check(cond, stats) ==
    LET signal == cond.signal
        field == cond.field
        op_name == cond.op
        threshold == cond.value
    IN IF signal \notin DOMAIN stats.stats THEN NoMatch
       ELSE IF field \notin _SIGNAL_STATS_FIELDS THEN NoMatch
       ELSE LET actual == stats.stats[signal][field]
            IN IF actual = NaN THEN NoMatch
               ELSE IF ~KnownOp(op_name) THEN NoMatch
               ELSE [matched |-> ApplyOp(op_name, actual, threshold),
                     evidence |-> <<(<<signal, ".", field, "=">> \o Str(actual))>>]

_eval_anomaly_check(cond, anomalies) ==
    LET signal_filter == Get(cond, "signal", "")
        context_filter == Get(cond, "context", "")
        severity_filter == Get(cond, "severity", "")
        by_signal == IF signal_filter # ""
                     THEN SelectSeq(anomalies.events,
                                    LAMBDA e : signal_filter \in Range(e.signals))
                     ELSE anomalies.events
        by_context == IF context_filter # ""
                      THEN SelectSeq(by_signal, LAMBDA e : e.context = context_filter)
                      ELSE by_signal
        matching == IF severity_filter # ""
                    THEN SelectSeq(by_context, LAMBDA e : e.severity = severity_filter)
                    ELSE by_context
        count == Len(matching)
        matched == IF Has(cond, "min_count") THEN count >= cond.min_count
                   ELSE IF Has(cond, "max_count") THEN count <= cond.max_count
                   ELSE count > 0
        evidence ==
            IF ~matched THEN <<>>
            ELSE <<(<<"anomaly_events_matched=">> \o Str(count))>>
                 \o (IF signal_filter # ""
                     THEN <<(<<"anomaly_signal_filter=", signal_filter>>)>> ELSE <<>>)
                 \o (IF context_filter # ""
                     THEN <<(<<"anomaly_context_filter=", context_filter>>)>> ELSE <<>>)
                 \o (IF severity_filter # ""
                     THEN <<(<<"anomaly_severity_filter=", severity_filter>>)>> ELSE <<>>)
    IN [matched |-> matched, evidence |-> evidence, count |-> count]

_eval_dtc_check(cond, dtc_codes) ==
    LET mode == Get(cond, "mode", "present")
        prefix == Get(cond, "prefix", <<>>)
        found == SelectSeq(dtc_codes, LAMBDA c : StartsWith(c, prefix))
        code == Get(cond, "code", <<>>)
    IN IF mode = "absent"
       THEN [matched |-> Len(dtc_codes) = 0,
             evidence |-> <<(<<"dtc_count=">> \o Str(Len(dtc_codes)))>>,
             matched_dtcs |-> <<>>]
       ELSE IF mode = "prefix"
       THEN [matched |-> Len(found) > 0,
             evidence |-> <<(<<"dtc_prefix=">> \o prefix),
                            (<<"dtc_matched=">> \o Join(found))>>,
             matched_dtcs |-> Join(found)]
       ELSE IF mode = "absent_prefix"
       THEN [matched |-> Len(found) = 0,
             evidence |-> <<(<<"dtc_absent_prefix=">> \o prefix),
                            (<<"dtc_matched=">> \o Join(found))>>,
             matched_dtcs |-> <<>>]
       ELSE IF mode = "present"
       THEN IF code # <<>>
            THEN LET matched == code \in Range(dtc_codes)
                 IN [matched |-> matched,
                     evidence |-> <<(<<"dtc_code=">> \o code),
                                    (<<"dtc_present=">> \o StrBool(matched))>>,
                     matched_dtcs |-> IF matched THEN code ELSE <<>>]
            ELSE [matched |-> Len(dtc_codes) > 0,
                  evidence |-> <<(<<"dtc_count=">> \o Str(Len(dtc_codes)))>>,
                  matched_dtcs |-> Join(dtc_codes)]
       ELSE [matched |-> FALSE, evidence |-> <<>>, matched_dtcs |-> <<>>]

_eval_stat_compare(cond, stats) ==
    LET sig_a == cond.signal_a
        field_a == cond.field_a
        sig_b == cond.signal_b
        field_b == cond.field_b
        op_name == cond.op
        ratio == Get(cond, "ratio", 1)
    IN IF sig_a \notin DOMAIN stats.stats \/ sig_b \notin DOMAIN stats.stats THEN NoMatch
       ELSE IF field_a \notin _SIGNAL_STATS_FIELDS THEN NoMatch
       ELSE IF field_b \notin _SIGNAL_STATS_FIELDS THEN NoMatch
       ELSE LET val_a == stats.stats[sig_a][field_a]
                val_b == stats.stats[sig_b][field_b]
            IN IF val_a = NaN \/ val_b = NaN THEN NoMatch
               ELSE IF ~KnownOp(op_name) THEN NoMatch
               ELSE [matched |-> ApplyOp(op_name, val_a, val_b * ratio),
                     evidence |-> <<(<<sig_a, ".", field_a, "=">> \o Str(val_a)),
                                    (<<sig_b, ".", field_b, "=">> \o Str(val_b)),
                                    (<<"ratio=">> \o Str(ratio))>>]

_eval_signal_exists(cond, stats) ==
    LET signal == cond.signal
        expected == Get(cond, "exists", TRUE)
        present == signal \in DOMAIN stats.stats
    IN [matched |-> present = expected,
        evidence |-> <<(<<signal, "_present=">> \o StrBool(present))>>]

(***************************************************************************)
(* Templates.  A template is a sequence of parts: literal text, or a       *)
(* replacement field {name}, {name.attr}, {name:spec}, {name.attr:spec}    *)
(* (attr and spec are "" when the field has none).  A context value is a   *)
(* _SignalNamespace (tag "ns"), a number (tag "num") or a string ("str").  *)
(***************************************************************************)
Lit(text) == [kind |-> "lit", text |-> text, name |-> "", attr |-> "", spec |-> ""]
Field(name, attr, spec) ==
    [kind |-> "field", text |-> "", name |-> name, attr |-> attr, spec |-> spec]

NumValue(n) == [tag |-> "num", val |-> n, text |-> <<>>]
StrValue(t) == [tag |-> "str", val |-> 0, text |-> t]
\* _SignalNamespace(ss)
Namespace(ss) == [tag |-> "ns", val |-> 0, text |-> <<>>, _stats |-> ss]

\* format specs: "" and ">5" are accepted by numbers and strings, some specs
\* by numbers only, some by strings only
NumberOnlySpecs == {".2f"}
StringOnlySpecs == {"s"}

\* _TemplateContext.__getitem__ with __missing__
CtxLookup(ctx, key) == IF key \in DOMAIN ctx THEN ctx[key] ELSE StrValue(<<"N/A">>)

\* getattr(obj, attr) during field resolution: a value, or AttributeError
GetAttr(obj, attr) ==
    IF obj.tag = "ns" /\ attr \in _SIGNAL_STATS_FIELDS
    THEN [ok |-> TRUE, value |-> NumValue(obj._stats[attr])]
    ELSE [ok |-> FALSE, value |-> obj]

\* format(value, spec): the text, or ValueError
FormatValue(value, spec) ==
    IF value.tag = "num"
    THEN IF spec \in StringOnlySpecs THEN [ok |-> FALSE, text |-> <<>>]
         ELSE [ok |-> TRUE,
               text |-> (IF spec = "" THEN <<>> ELSE <<spec>>) \o Str(value.val)]
    ELSE LET t == IF value.tag = "ns" THEN Str(value._stats.mean) ELSE value.text
         IN IF spec \in NumberOnlySpecs THEN [ok |-> FALSE, text |-> <<>>]
            ELSE [ok |-> TRUE, text |-> (IF spec = "" THEN <<>> ELSE <<spec>>) \o t]

\* one replacement field of str.format_map
RenderField(part, ctx) ==
    LET obj == CtxLookup(ctx, part.name)
        got == IF part.attr = "" THEN [ok |-> TRUE, value |-> obj]
               ELSE GetAttr(obj, part.attr)
    IN IF ~got.ok THEN [status |-> "AttributeError", text |-> <<>>]
       ELSE LET f == FormatValue(got.value, part.spec)
            IN IF f.ok THEN [status |-> "ok", text |-> f.text]
               ELSE [status |-> "ValueError", text |-> <<>>]

\* template.format_map(ctx): the first field that fails decides the error
RECURSIVE FormatMap(_, _)
FormatMap(template, ctx) ==
    IF template = <<>> THEN [status |-> "ok", text |-> <<>>]
    ELSE LET part == Head(template)
             first == IF part.kind = "lit" THEN [status |-> "ok", text |-> <<part.text>>]
                      ELSE RenderField(part, ctx)
         IN IF first.status # "ok" THEN first
            ELSE LET rest == FormatMap(Tail(template), ctx)
                 IN IF rest.status # "ok" THEN rest
                    ELSE [status |-> "ok", text |-> first.text \o rest.text]

\* _build_template_context
_build_template_context(stats) ==
    [k \in DOMAIN stats.stats \cup {"anomaly_count", "matched_dtcs"} |->
        IF k = "anomaly_count" THEN NumValue(0)
        ELSE IF k = "matched_dtcs" THEN StrValue(<<>>)
        ELSE Namespace(stats.stats[k])]

(***************************************************************************)
(* _evaluate_rule                                                          *)
(***************************************************************************)
\* one pass of the condition loop: the condition's result and what it binds
EvalCondition(cond, stats, anomalies, dtc_codes, anomaly_count, matched_dtcs) ==
    LET ctype == cond.type
    IN IF ctype = "stat_check"
       THEN LET r == _eval_stat_check(cond, stats)
            IN [known |-> TRUE, matched |-> r.matched, evidence |-> r.evidence,
                anomaly_count |-> anomaly_count, matched_dtcs |-> matched_dtcs]
       ELSE IF ctype = "anomaly_check"
       THEN LET r == _eval_anomaly_check(cond, anomalies)
            IN [known |-> TRUE, matched |-> r.matched, evidence |-> r.evidence,
                anomaly_count |-> r.count, matched_dtcs |-> matched_dtcs]
       ELSE IF ctype = "dtc_check"
       THEN LET r == _eval_dtc_check(cond, dtc_codes)
            IN [known |-> TRUE, matched |-> r.matched, evidence |-> r.evidence,
                anomaly_count |-> anomaly_count, matched_dtcs |-> r.matched_dtcs]
       ELSE IF ctype = "stat_compare"
       THEN LET r == _eval_stat_compare(cond, stats)
            IN [known |-> TRUE, matched |-> r.matched, evidence |-> r.evidence,
                anomaly_count |-> anomaly_count, matched_dtcs |-> matched_dtcs]
       ELSE IF ctype = "signal_exists"
       THEN LET r == _eval_signal_exists(cond, stats)
            IN [known |-> TRUE, matched |-> r.matched, evidence |-> r.evidence,
                anomaly_count |-> anomaly_count, matched_dtcs |-> matched_dtcs]
       ELSE [known |-> FALSE, matched |-> FALSE, evidence |-> <<>>,
             anomaly_count |-> anomaly_count, matched_dtcs |-> matched_dtcs]

\* the loop over rule["conditions"]: fired is FALSE at the first return None;
\* evaluated counts the conditions that were evaluated
RECURSIVE ConditionLoop(_, _, _, _, _)
ConditionLoop(conds, stats, anomalies, dtc_codes, acc) ==
    IF conds = <<>> THEN [acc EXCEPT !.fired = TRUE]
    ELSE LET r == EvalCondition(Head(conds), stats, anomalies, dtc_codes,
                                acc.anomaly_count, acc.matched_dtcs)
             seen == [acc EXCEPT !.evaluated = @ + 1]
         IN IF ~r.known \/ ~r.matched THEN [seen EXCEPT !.fired = FALSE]
            ELSE ConditionLoop(Tail(conds), stats, anomalies, dtc_codes,
                               [seen EXCEPT !.all_evidence = @ \o r.evidence,
                                            !.anomaly_count = r.anomaly_count,
                                            !.matched_dtcs = r.matched_dtcs])

RuleConditions(rule, stats, anomalies, dtc_codes) ==
    ConditionLoop(rule.conditions, stats, anomalies, dtc_codes,
                  [fired |-> FALSE, all_evidence |-> <<>>, anomaly_count |-> 0,
                   matched_dtcs |-> <<>>, evaluated |-> 0])

\* the context left as _build_template_context made it
WriteNothing(ctx, anomaly_count, matched_dtcs) == ctx

\* ctx["anomaly_count"] = ...; ctx["matched_dtcs"] = ...
WriteDynamic(ctx, anomaly_count, matched_dtcs) ==
    [k \in DOMAIN ctx \cup {"anomaly_count", "matched_dtcs"} |->
        IF k = "anomaly_count" THEN NumValue(anomaly_count)
        ELSE IF k = "matched_dtcs" THEN StrValue(matched_dtcs)
        ELSE ctx[k]]

DiagnosticClue(rule, clue_text, all_evidence) ==
    [rule_id |-> rule.id, category |-> rule.category, clue |-> clue_text,
     evidence |-> all_evidence, severity |-> rule.severity]

\* the template step: the clue, or the exception that leaves _evaluate_rule
ClueFromTemplate(rule, ctx, all_evidence) ==
    LET f == FormatMap(rule.template, ctx)
    IN IF f.status = "ok"
       THEN [raised |-> FALSE, clue |-> DiagnosticClue(rule, f.text, all_evidence)]
       ELSE IF f.status = "AttributeError"
       THEN [raised |-> FALSE,
             clue |-> DiagnosticClue(rule, Get(rule, "description", <<rule.id>>),
                                     all_evidence)]
       ELSE [raised |-> TRUE, clue |-> DiagnosticClue(rule, <<>>, all_evidence)]

(***************************************************************************)
(* _validate_rule and _load_rules.  A parsed YAML document is              *)
(* [yaml |-> kind, rules |-> items]; kind is "list" for a sequence.        *)
(***************************************************************************)
RequiredKeys == {"id", "category", "severity", "conditions", "template"}

\* only the required keys are checked
ValidateKeysOnly(rule) ==
    IF ~(RequiredKeys \subseteq DOMAIN rule) THEN "missing required keys" ELSE "ok"

\* "ok", or the reason of the ValueError
_validate_rule(rule) ==
    IF ~(RequiredKeys \subseteq DOMAIN rule) THEN "missing required keys"
    ELSE IF rule.severity \notin _VALID_SEVERITIES THEN "invalid severity"
    ELSE IF rule.category \notin _VALID_CATEGORIES THEN "invalid category"
    ELSE IF Len(rule.conditions) = 0 THEN "conditions must be a non-empty list"
    ELSE IF \E i \in 1..Len(rule.conditions) :
               Get(rule.conditions[i], "type", "") \notin _VALID_CONDITION_TYPES
         THEN "invalid condition type"
    ELSE "ok"

RECURSIVE ValidateLoop(_, _)
ValidateLoop(rules, seen_ids) ==
    IF rules = <<>> THEN "ok"
    ELSE LET v == _validate_rule(Head(rules))
         IN IF v # "ok" THEN v
            ELSE IF Head(rules).id \in seen_ids THEN "Duplicate rule id"
            ELSE ValidateLoop(Tail(rules), seen_ids \cup {Head(rules).id})

_load_rules(doc) ==
    IF doc.yaml = "missing"
    THEN [raised |-> TRUE, error |-> "FileNotFoundError", rules |-> <<>>]
    ELSE IF doc.yaml = "invalid"
    THEN [raised |-> TRUE, error |-> "Invalid YAML", rules |-> <<>>]
    ELSE IF doc.yaml # "list"
    THEN [raised |-> TRUE, error |-> "Expected a list of rules", rules |-> <<>>]
    ELSE LET v == ValidateLoop(doc.rules, {})
         IN IF v # "ok" THEN [raised |-> TRUE, error |-> v, rules |-> <<>>]
            ELSE [raised |-> FALSE, error |-> "", rules |-> doc.rules]

(***************************************************************************)
(* generate_clues.  A call c runs on the shared inputs cgIn; its locals    *)
(* are cgCall[c].  trace and src are history: one entry per evaluated      *)
(* rule, and the rule index behind each clue.                              *)
(***************************************************************************)
\* every call builds its own context objects
BaseCtxId(c) == <<"base_ctx", c>>
\* one rule context object used by every call
SharedRuleCtxId(c) == <<"rule_ctx", 0>>
RuleCtxId(c) == <<"rule_ctx", c>>

HeapPut(h, id, ctx) == [k \in DOMAIN h \cup {id} |-> IF k = id THEN ctx ELSE h[k]]

NoLocals == [fired |-> FALSE, all_evidence |-> <<>>, anomaly_count |-> 0,
             matched_dtcs |-> <<>>, evaluated |-> 0]

NoClueReport == [clues |-> <<>>, vehicle_id |-> "", time_range |-> <<0, 0>>,
                 dtc_codes |-> <<>>, rules_applied |-> 0, rules_matched |-> 0]

NewCall == [pc |-> "call", rules |-> <<>>, dtc_codes |-> <<>>, i |-> 1,
            matched_clues |-> <<>>, locals |-> NoLocals, report |-> NoClueReport,
            error |-> "", trace |-> <<>>, src |-> <<>>]

RulesApplied(rules) == Len(rules)
\* counting the categories that matched instead of the clues
RulesMatchedCategories(matched_clues) ==
    Cardinality({matched_clues[n].category : n \in 1..Len(matched_clues)})
RulesMatched(matched_clues) == Len(matched_clues)
\* newest clue first
PrependClue(matched_clues, clue) == <<clue>> \o matched_clues
AppendClue(matched_clues, clue) == Append(matched_clues, clue)

DiagnosticClueReport(matched_clues, stats, dtc_codes, rules) ==
    [clues |-> matched_clues, vehicle_id |-> stats.vehicle_id,
     time_range |-> stats.time_range, dtc_codes |-> dtc_codes,
     rules_applied |-> RulesApplied(rules),
     rules_matched |-> RulesMatched(matched_clues)]

TraceEntry(fired, evaluated, outcome) ==
    [fired |-> fired, evaluated |-> evaluated, outcome |-> outcome]

\* a clue list that outlives the call: the clues of a call that has returned
LeftoverClues(c) ==
    IF \E d \in DOMAIN cgCall \ {c} : cgCall[d].pc = "done"
    THEN cgCall[CHOOSE d \in DOMAIN cgCall \ {c} : cgCall[d].pc = "done"].report.clues
    ELSE <<>>

\* matched_clues = []
FreshClues(c) == <<>>

\* rules is None: _load_rules(rules_path); then base_ctx and dtc_codes
GenerateCluesEnter(c) ==
    /\ cgCall[c].pc = "call"
    /\ LET l == IF cgIn.rules_given
                THEN [raised |-> FALSE, error |-> "", rules |-> cgIn.rules]
                ELSE _load_rules(cgIn.doc)
       IN IF l.raised
          THEN /\ cgCall' = [cgCall EXCEPT ![c].pc = "raised", ![c].error = l.error]
               /\ UNCHANGED heap
          ELSE /\ cgCall' = [cgCall EXCEPT ![c].pc = "loop", ![c].rules = l.rules,
                                           ![c].dtc_codes = cgIn.stats.dtc_codes,
                                           ![c].matched_clues = FreshClues(c)]
               /\ heap' = HeapPut(heap, BaseCtxId(c), _build_template_context(cgIn.stats))
    /\ UNCHANGED <<cgIn, adVars, ldVars, pipeVars, mgVars>>

\* rule_ctx = _TemplateContext(base_ctx); the condition loop of _evaluate_rule
BeginRule(c) ==
    LET call == cgCall[c] IN
    /\ call.pc = "loop"
    /\ call.i <= Len(call.rules)
    /\ heap' = HeapPut(heap, RuleCtxId(c), heap[BaseCtxId(c)])
    /\ LET r == RuleConditions(call.rules[call.i], cgIn.stats, cgIn.anomalies,
                               call.dtc_codes)
       IN IF r.fired
          THEN cgCall' = [cgCall EXCEPT ![c].pc = "write", ![c].locals = r]
          ELSE cgCall' = [cgCall EXCEPT
                            ![c].i = @ + 1,
                            ![c].locals = NoLocals,
                            ![c].trace = Append(@, TraceEntry(FALSE, r.evaluated, "none"))]
    /\ UNCHANGED <<cgIn, adVars, ldVars, pipeVars, mgVars>>

\* ctx["anomaly_count"] = anomaly_count; ctx["matched_dtcs"] = matched_dtcs
WriteCtx(c) ==
    LET call == cgCall[c] IN
    /\ call.pc = "write"
    /\ heap' = HeapPut(heap, RuleCtxId(c),
                       WriteDynamic(heap[RuleCtxId(c)], call.locals.anomaly_count,
                                    call.locals.matched_dtcs))
    /\ cgCall' = [cgCall EXCEPT ![c].pc = "format"]
    /\ UNCHANGED <<cgIn, adVars, ldVars, pipeVars, mgVars>>

\* format the template, build the clue, append it
FormatClue(c) ==
    LET call == cgCall[c]
        out == ClueFromTemplate(call.rules[call.i], heap[RuleCtxId(c)],
                                call.locals.all_evidence)
    IN
    /\ call.pc = "format"
    /\ IF out.raised
       THEN cgCall' = [cgCall EXCEPT
                         ![c].pc = "raised",
                         ![c].error = "ValueError",
                         ![c].trace = Append(@, TraceEntry(TRUE, call.locals.evaluated,
                                                           "raised"))]
       ELSE cgCall' = [cgCall EXCEPT
                         ![c].pc = "loop",
                         ![c].i = @ + 1,
                         ![c].locals = NoLocals,
                         ![c].matched_clues = AppendClue(@, out.clue),
                         ![c].src = Append(@, call.i),
                         ![c].trace = Append(@, TraceEntry(TRUE, call.locals.evaluated,
                                                           "clue"))]
    /\ UNCHANGED <<cgIn, heap, adVars, ldVars, pipeVars, mgVars>>

ReturnReport(c) ==
    LET call == cgCall[c] IN
    /\ call.pc = "loop"
    /\ call.i > Len(call.rules)
    /\ cgCall' = [cgCall EXCEPT
                    ![c].pc = "done",
                    ![c].report = DiagnosticClueReport(call.matched_clues, cgIn.stats,
                                                       call.dtc_codes, call.rules)]
    /\ UNCHANGED <<cgIn, heap, adVars, ldVars, pipeVars, mgVars>>

(***************************************************************************)
(* Inputs of generate_clues: sessions (statistics, DTCs, anomaly events)   *)
(* and rules.                                                              *)
(***************************************************************************)
SignalStats(mean, std, mn, mx, autocorrelation_lag1, valid_count) ==
    [mean |-> mean, std |-> std, min |-> mn, max |-> mx,
     p5 |-> mn, p25 |-> mn, p50 |-> mean, p75 |-> mx, p95 |-> mx,
     autocorrelation_lag1 |-> autocorrelation_lag1,
     mean_abs_change |-> 0, max_abs_change |-> mx - mn,
     energy |-> mean * mean + std * std, entropy |-> 0,
     valid_count |-> valid_count]

SignalStatistics(stats, dtc_codes) ==
    [stats |-> stats, vehicle_id |-> "V-TEST1234", time_range |-> <<0, 59>>,
     dtc_codes |-> dtc_codes]

P0300 == <<"P", "0", "3", "0", "0">>
P0171 == <<"P", "0", "1", "7", "1">>
P0301 == <<"P", "0", "3", "0", "1">>

NoSignals == [k \in {} |-> 0]
EngineOff == [k \in {"engine_rpm", "vehicle_speed"} |-> SignalStats(0, 0, 0, 0, NaN, 60)]
Driving ==
    [k \in {"engine_rpm", "vehicle_speed", "coolant_temperature"} |->
        IF k = "engine_rpm" THEN SignalStats(900, 40, 30, 3000, 1, 60)
        ELSE IF k = "vehicle_speed" THEN SignalStats(30, 12, 0, 60, 1, 60)
        ELSE SignalStats(90, 0, 90, 90, NaN, 60)]

SessionEvent(start, signals, context, severity) ==
    AnomalyEvent(start, start + 9, signals,
                 PatternText("Change-point", signals, <<1, 1>>, <<1, 2>>),
                 context, severity, "changepoint", <<1, 2>>)

SessionAnomalies(events) ==
    [events |-> events, vehicle_id |-> "V-TEST1234", time_range |-> <<0, 59>>,
     dtc_codes |-> <<>>, detection_params |-> <<>>, returned |-> TRUE]

Sessions ==
    {[stats |-> SignalStatistics(NoSignals, <<>>),
      anomalies |-> SessionAnomalies(<<>>)],
     [stats |-> SignalStatistics(EngineOff, <<>>),
      anomalies |-> SessionAnomalies(
          <<SessionEvent(0, <<"long_fuel_trim_1">>, "off", "low")>>)],
     [stats |-> SignalStatistics(Driving, <<P0300, P0171, P0301>>),
      anomalies |-> SessionAnomalies(
          <<SessionEvent(5, <<"engine_rpm">>, "idle", "high"),
            SessionEvent(20, <<"engine_rpm", "vehicle_speed">>, "cruise", "medium"),
            SessionEvent(40, <<"vehicle_speed">>, "idle", "high")>>)]}

Rule(id, category, severity, conditions, template) ==
    [id |-> id, category |-> category, severity |-> severity,
     conditions |-> conditions, template |-> template]
RuleWithDescription(id, category, severity, conditions, template, description) ==
    [id |-> id, category |-> category, severity |-> severity,
     conditions |-> conditions, template |-> template, description |-> description]

StatCheck(signal, field, op, value) ==
    [type |-> "stat_check", signal |-> signal, field |-> field, op |-> op, value |-> value]
StatCompare(signal_a, field_a, signal_b, field_b, op, ratio) ==
    [type |-> "stat_compare", signal_a |-> signal_a, field_a |-> field_a,
     signal_b |-> signal_b, field_b |-> field_b, op |-> op, ratio |-> ratio]

RpmLow == StatCheck("engine_rpm", "max", "le", 50)
RpmHigh == StatCheck("engine_rpm", "max", "gt", 50)

RulePool ==
    {RuleWithDescription("STAT_001", "statistical", "info", <<RpmLow>>,
        <<Lit("RPM max is "), Field("engine_rpm", "max", "")>>, <<"Engine off">>),
     Rule("AND_001", "statistical", "warning",
        <<RpmHigh, StatCheck("engine_rpm", "std", "lt", 10),
          [type |-> "dtc_check", mode |-> "absent"]>>,
        <<Field("engine_rpm", "mean", ".2f")>>),
     Rule("DTC_001", "dtc", "critical",
        <<[type |-> "dtc_check", mode |-> "prefix", prefix |-> <<"P", "0", "3">>],
          [type |-> "anomaly_check", signal |-> "engine_rpm", severity |-> "high",
           min_count |-> 1]>>,
        <<Field("matched_dtcs", "", ""), Lit(" with "), Field("anomaly_count", "", ".2f")>>),
     Rule("NEG_001", "negative_evidence", "info",
        <<[type |-> "anomaly_check", severity |-> "high", max_count |-> 0],
          [type |-> "dtc_check", mode |-> "absent"]>>,
        <<Lit("No severe anomalies: "), Field("anomaly_count", "", "")>>),
     Rule("EMPTY_001", "statistical", "info", <<>>, <<Lit("Always")>>),
     RuleWithDescription("NEG_002", "negative_evidence", "info",
        <<[type |-> "signal_exists", signal |-> "coolant_temperature", exists |-> FALSE]>>,
        <<Lit("No coolant data, mean "), Field("coolant_temperature", "mean", "")>>,
        <<"Coolant missing">>),
     Rule("TPL_001", "dtc", "warning",
        <<[type |-> "dtc_check"]>>,
        <<Lit("Vehicle "), Field("vehicle", "", ""), Lit(" has DTCs")>>),
     Rule("TPL_002", "dtc", "info",
        <<[type |-> "dtc_check", mode |-> "absent_prefix", prefix |-> <<"P", "0", "2">>]>>,
        <<Lit("Load "), Field("engine_load", "", ".2f")>>),
     Rule("TPL_003", "statistical", "info", <<RpmHigh>>,
        <<Lit("Median "), Field("engine_rpm", "median", ".2f")>>),
     Rule("TPL_004", "interaction", "info",
        <<StatCompare("engine_rpm", "max", "vehicle_speed", "max", "gt", 2),
          [type |-> "signal_exists", signal |-> "engine_rpm"]>>,
        <<Field("engine_rpm", "", ""), Lit("/"), Field("odometer", "", ">5")>>),
     Rule("BAD_001", "statistical", "info",
        <<StatCheck("engine_rpm", "median", "gt", 50)>>, <<Lit("unknown field")>>),
     Rule("BAD_002", "statistical", "info",
        <<RpmHigh, StatCheck("engine_rpm", "max", "between", 50)>>,
        <<Lit("unknown operator")>>),
     Rule("BAD_003", "interaction", "info",
        <<StatCompare("engine_rpm", "max", "vehicle_speed", "range", "gt", 1)>>,
        <<Lit("unknown compare field")>>),
     Rule("BAD_004", "interaction", "info",
        <<StatCompare("engine_rpm", "max", "vehicle_speed", "max", "approx", 1)>>,
        <<Lit("unknown compare operator")>>),
     Rule("BAD_005", "dtc", "info",
        <<[type |-> "dtc_check", mode |-> "exists"]>>, <<Lit("unknown mode")>>),
     Rule("BAD_006", "anomaly", "info",
        <<[type |-> "regex_check", pattern |-> "x"]>>, <<Lit("unknown type")>>),
     Rule("ANOM_001", "anomaly", "warning",
        <<[type |-> "anomaly_check", context |-> "idle", severity |-> "high"],
          [type |-> "dtc_check", mode |-> "present", code |-> P0300]>>,
        <<Field("anomaly_count", "", ""), Lit(" idle anomalies, "),
          Field("matched_dtcs", "", "")>>),
     Rule("LAST_001", "interaction", "warning",
        <<[type |-> "anomaly_check", signal |-> "engine_rpm"],
          [type |-> "dtc_check", mode |-> "prefix", prefix |-> <<"P", "0", "3">>],
          [type |-> "anomaly_check", context |-> "cruise"],
          [type |-> "dtc_check", mode |-> "present", code |-> P0171]>>,
        <<Field("anomaly_count", "", ""), Lit(" cruise anomalies, "),
          Field("matched_dtcs", "", "")>>),
     Rule("NONE_001", "statistical", "info", <<RpmHigh>>,
        <<Field("anomaly_count", "", ""), Lit(" anomalies, DTCs: "),
          Field("matched_dtcs", "", "")>>)}

MaxRules == 2

RECURSIVE SeqsUpTo(_, _)
SeqsUpTo(S, n) ==
    IF n = 0 THEN {<<>>}
    ELSE LET shorter == SeqsUpTo(S, n - 1)
         IN shorter \cup {Append(q, x) : q \in shorter, x \in S}

ClueInput(session, rules_given, rules) ==
    [stats |-> session.stats, anomalies |-> session.anomalies,
     rules_given |-> rules_given,
     rules |-> IF rules_given THEN rules ELSE <<>>,
     doc |-> IF rules_given THEN [yaml |-> "list", rules |-> <<>>]
             ELSE [yaml |-> "list", rules |-> rules]]

AdIdle ==
    /\ ts = <<>> /\ params = <<>> /\ adPc = "idle" /\ columns = <<>>
    /\ cp_events = <<>> /\ if_events = <<>> /\ report = NoReport

InitClues ==
    /\ \E session \in Sessions, rules_given \in BOOLEAN,
          rules \in SeqsUpTo(RulePool, MaxRules) :
          cgIn = ClueInput(session, rules_given, rules)
    /\ cgCall = [c \in {1} |-> NewCall]
    /\ heap = [k \in {} |-> 0]
    /\ AdIdle
    /\ LdIdle
    /\ PipeIdle
    /\ MgIdle

NextClues ==
    \/ \E c \in DOMAIN cgCall : GenerateCluesEnter(c)
    \/ \E c \in DOMAIN cgCall : BeginRule(c)
    \/ \E c \in DOMAIN cgCall : WriteCtx(c)
    \/ \E c \in DOMAIN cgCall : FormatClue(c)
    \/ \E c \in DOMAIN cgCall : ReturnReport(c)

SpecClues == InitClues /\ [][NextClues]_vars

(***************************************************************************)
(* _load_rules on its own: one rule file, loaded once.                     *)
(***************************************************************************)
NotLoaded == [status |-> "none", error |-> "", rules |-> <<>>]

LoadRules ==
    /\ loaded = NotLoaded
    /\ LET l == _load_rules(ruleFile)
       IN loaded' = [status |-> IF l.raised THEN "raised" ELSE "returned",
                     error |-> l.error, rules |-> l.rules]
    /\ UNCHANGED <<ruleFile, adVars, cgVars, pipeVars, mgVars>>

Drop(rule, key) == [k \in DOMAIN rule \ {key} |-> rule[k]]

GoodRule(id) ==
    Rule(id, "statistical", "info", <<RpmLow>>, <<Lit("RPM low")>>)

FileRulePool ==
    {GoodRule("R1"), GoodRule("R2"),
     RuleWithDescription("R3", "dtc", "critical",
        <<[type |-> "dtc_check", mode |-> "exists"], RpmHigh>>,
        <<Field("matched_dtcs", "", "")>>, <<"DTCs">>),
     Drop(GoodRule("R4"), "template"),
     Drop(GoodRule("R5"), "id"),
     Drop(GoodRule("R6"), "conditions"),
     [GoodRule("R7") EXCEPT !.severity = "fatal"],
     [GoodRule("R8") EXCEPT !.category = "misc"],
     [GoodRule("R9") EXCEPT !.conditions = <<>>],
     [GoodRule("R10") EXCEPT !.conditions = <<RpmLow, [type |-> "regex_check"]>>],
     [GoodRule("R11") EXCEPT !.conditions = <<[signal |-> "engine_rpm"]>>]}

MaxFileRules == 2

Docs ==
    {[yaml |-> kind, rules |-> <<>>] : kind \in {"missing", "invalid", "mapping", "null"}}
    \cup {[yaml |-> "list", rules |-> rules] : rules \in SeqsUpTo(FileRulePool, MaxFileRules)}

InitLoad ==
    /\ ruleFile \in Docs
    /\ loaded = NotLoaded
    /\ AdIdle
    /\ CgIdle
    /\ PipeIdle
    /\ MgIdle

NextLoad == LoadRules

SpecLoad == InitLoad /\ [][NextLoad]_vars

(***************************************************************************)
(* Two concurrent calls of generate_clues on the same inputs.              *)
(***************************************************************************)
\* generate_clues run to completion by one caller
RECURSIVE RuleLoop(_, _, _, _)
RuleLoop(rules, in, base_ctx, matched_clues) ==
    IF rules = <<>>
    THEN [status |-> "done", error |-> "", clues |-> matched_clues]
    ELSE LET r == RuleConditions(Head(rules), in.stats, in.anomalies, in.stats.dtc_codes)
         IN IF ~r.fired THEN RuleLoop(Tail(rules), in, base_ctx, matched_clues)
            ELSE LET out == ClueFromTemplate(
                                Head(rules),
                                WriteDynamic(base_ctx, r.anomaly_count, r.matched_dtcs),
                                r.all_evidence)
                 IN IF out.raised
                    THEN [status |-> "raised", error |-> "ValueError", clues |-> <<>>]
                    ELSE RuleLoop(Tail(rules), in, base_ctx,
                                  Append(matched_clues, out.clue))

GenerateCluesAlone(in) ==
    LET l == IF in.rules_given
             THEN [raised |-> FALSE, error |-> "", rules |-> in.rules]
             ELSE _load_rules(in.doc)
    IN IF l.raised THEN [status |-> "raised", error |-> l.error, report |-> NoClueReport]
       ELSE LET run == RuleLoop(l.rules, in, _build_template_context(in.stats), <<>>)
            IN IF run.status = "raised"
               THEN [status |-> "raised", error |-> run.error, report |-> NoClueReport]
               ELSE [status |-> "done", error |-> "",
                     report |-> [clues |-> run.clues,
                                 vehicle_id |-> in.stats.vehicle_id,
                                 time_range |-> in.stats.time_range,
                                 dtc_codes |-> in.stats.dtc_codes,
                                 rules_applied |-> Len(l.rules),
                                 rules_matched |-> Len(run.clues)]]

ConcRulePool ==
    {r \in RulePool : r.id \in {"DTC_001", "NEG_001", "ANOM_001", "TPL_002", "NEG_002"}}

MaxConcRules == 2
Callers == {1, 2}

InitConc ==
    /\ \E session \in Sessions, rules_given \in BOOLEAN,
          rules \in SeqsUpTo(ConcRulePool, MaxConcRules) :
          cgIn = ClueInput(session, rules_given, rules)
    /\ cgCall = [c \in Callers |-> NewCall]
    /\ heap = [k \in {} |-> 0]
    /\ AdIdle
    /\ LdIdle
    /\ PipeIdle
    /\ MgIdle

SpecConc == InitConc /\ [][NextClues]_vars

(***************************************************************************)
(* generate_clues called twice in a row on the same inputs: the second     *)
(* call starts when the first has ended.                                   *)
(***************************************************************************)
Ended(c) == cgCall[c].pc \in {"done", "raised"}
Turn(c) == c = 1 \/ Ended(1)

NextTwice ==
    \/ \E c \in DOMAIN cgCall : Turn(c) /\ GenerateCluesEnter(c)
    \/ \E c \in DOMAIN cgCall : Turn(c) /\ BeginRule(c)
    \/ \E c \in DOMAIN cgCall : Turn(c) /\ WriteCtx(c)
    \/ \E c \in DOMAIN cgCall : Turn(c) /\ FormatClue(c)
    \/ \E c \in DOMAIN cgCall : Turn(c) /\ ReturnReport(c)

InitTwice ==
    /\ \E session \in Sessions, rules_given \in BOOLEAN,
          rules \in SeqsUpTo(RulePool, MaxRules) :
          cgIn = ClueInput(session, rules_given, rules)
    /\ cgCall = [c \in Callers |-> NewCall]
    /\ heap = [k \in {} |-> 0]
    /\ AdIdle
    /\ LdIdle
    /\ PipeIdle
    /\ MgIdle

SpecTwice == InitTwice /\ [][NextTwice]_vars

(***************************************************************************)
(* parse_log_file.  A line (without its line end) is the sequence of its   *)
(* tab-separated parts: line.split("\t").  A row maps column names to the  *)
(* stripped parts.                                                         *)
(***************************************************************************)
\* part.strip(), on the cell texts used here
Strip(text) ==
    IF text = " " THEN ""
    ELSE IF text = "900 " THEN "900"
    ELSE text

\* text.startswith(prefix), on the line starts used here
TextStartsWith(text, prefix) ==
    \/ prefix = "---" /\ text \in {"---", "------------------------------"}
    \/ prefix = "Log " /\ text \in {"Log started: 2024-01-01 00:00:00",
                                    "Log ended: 2024-01-01 00:00:09"}

\* line.startswith("Timestamp\t")
IsColumnHeader(line) == Len(line) >= 2 /\ line[1] = "Timestamp"

\* the index of the first column header line, 0 when there is none
RECURSIVE FindHeader(_, _)
FindHeader(lines, i) ==
    IF i > Len(lines) THEN 0
    ELSE IF IsColumnHeader(lines[i]) THEN i
    ELSE FindHeader(lines, i + 1)

\* [c.strip() for c in line.split("\t") if c.strip()]
HeaderColumns(line) ==
    LET kept == SelectSeq(line, LAMBDA c : Strip(c) # "")
    IN [k \in 1..Len(kept) |-> Strip(kept[k])]

\* a line of the data region that is passed over
SkippedLine(line, cols) ==
    \/ line = <<"">>
    \/ TextStartsWith(line[1], "---")
    \/ TextStartsWith(line[1], "Log ")
    \/ Len(line) < Len(cols)

\* {columns[i]: parts[i].strip() for i in range(len(columns))}
RowOfLine(line, cols) ==
    [c \in Range(cols) |->
        Strip(line[CHOOSE i \in 1..Len(cols) :
                      cols[i] = c /\ \A j \in (i + 1)..Len(cols) : cols[j] # c])]

\* the loop over lines[data_start:]
RECURSIVE ParseLines(_, _)
ParseLines(lines, cols) ==
    IF lines = <<>> THEN <<>>
    ELSE IF SkippedLine(Head(lines), cols) THEN ParseLines(Tail(lines), cols)
    ELSE <<RowOfLine(Head(lines), cols)>> \o ParseLines(Tail(lines), cols)

parse_log_file(lines) ==
    LET header_idx == FindHeader(lines, 1)
        cols == HeaderColumns(lines[header_idx])
        data_start == header_idx + 2
    IN IF header_idx = 0
       THEN [status |-> "raised", error |-> "ValueError", rows |-> <<>>]
       ELSE [status |-> "returned", error |-> "",
             rows |-> ParseLines(SubSeq(lines, data_start, Len(lines)), cols)]

NotParsed == [status |-> "none", error |-> "", rows |-> <<>>]

ParseLogFile ==
    /\ parsed = NotParsed
    /\ parsed' = parse_log_file(logFile)
    /\ UNCHANGED <<logFile, nzIn, nzOut, statistics, adVars, cgVars, ldVars, mgVars>>

\* ---- log files ---------------------------------------------------------
SeparatorLine == <<"------------------------------">>
ColumnHeaderLine == <<"Timestamp", "RPM", "SPEED", "">>
Preamble ==
    <<(<<"OBD-II log">>), (<<"Log started: 2024-01-01 00:00:00">>),
      (<<"Interval: 1.0 s">>), SeparatorLine>>

BodyLines ==
    {<<"2024-01-01 00:00:00", "850", "0">>,
     <<"2024-01-01 00:00:01", "900 ", "N/A", "extra">>,
     <<"2024-01-01 00:00:02", " ">>,
     <<"">>,
     SeparatorLine,
     <<"Log ended: 2024-01-01 00:00:09">>}

MaxBodyLines == 3

LogFiles ==
    {Preamble \o <<ColumnHeaderLine, SeparatorLine>> \o body :
        body \in SeqsUpTo(BodyLines, MaxBodyLines)}
    \cup {Preamble \o body : body \in SeqsUpTo(BodyLines, 1)}
    \cup {<<ColumnHeaderLine>>, <<>>}

InitParse ==
    /\ logFile \in LogFiles
    /\ parsed = NotParsed
    /\ nzIn = <<>> /\ nzOut = <<>> /\ statistics = <<>>
    /\ AdIdle
    /\ CgIdle
    /\ LdIdle
    /\ MgIdle

NextParse == ParseLogFile

SpecParse == InitParse /\ [][NextParse]_vars

(***************************************************************************)
(* Cell texts of a row.  A text is a sequence of characters (a run of      *)
(* characters that no pattern of the code matches inside may be written as *)
(* one element).                                                           *)
(***************************************************************************)
DecimalDigits == {"0", "1", "2", "3", "4", "5", "6", "7", "8", "9"}
UpperHex == DecimalDigits \cup {"A", "B", "C", "D", "E", "F"}
AnyHex == UpperHex \cup {"a", "b", "c", "d", "e", "f"}

\* str.upper(), one character
UpperChar(ch) ==
    IF ch = "a" THEN "A" ELSE IF ch = "b" THEN "B" ELSE IF ch = "c" THEN "C"
    ELSE IF ch = "d" THEN "D" ELSE IF ch = "e" THEN "E" ELSE IF ch = "f" THEN "F"
    ELSE IF ch = "p" THEN "P" ELSE IF ch = "u" THEN "U" ELSE IF ch = "x" THEN "X"
    ELSE ch

Upper(text) == [k \in 1..Len(text) |-> UpperChar(text[k])]

DigitValue(ch) == CHOOSE n \in 0..9 : Digit(n) = ch

RECURSIVE DecimalValue(_)
DecimalValue(text) ==
    IF text = <<>> THEN 0
    ELSE 10 * DecimalValue(SubSeq(text, 1, Len(text) - 1)) + DigitValue(text[Len(text)])

\* a value that is not a number, among rational cells
NaNValue == <<0, 0>>
IsNaN(v) == v = NaNValue
\* the index value of an empty index: NaT
NaT == -1

\* "%Y-%m-%d %H:%M:%S" texts of the first minute of one day
DatePrefix == "2024-01-01 00:00:"
TimestampText(sec) == <<DatePrefix, Digit(sec \div 10), Digit(sec % 10)>>

\* datetime.strptime(ts_raw, "%Y-%m-%d %H:%M:%S"): seconds, or ValueError
Strptime(text) ==
    IF /\ Len(text) = 3
       /\ text[1] = DatePrefix
       /\ text[2] \in DecimalDigits /\ text[3] \in DecimalDigits
       /\ DecimalValue(SubSeq(text, 2, 3)) < 60
    THEN [ok |-> TRUE, ts |-> DecimalValue(SubSeq(text, 2, 3))]
    ELSE [ok |-> FALSE, ts |-> NaT]

\* pd.to_numeric(text, errors="coerce") of one cell
ToNumeric(text) ==
    IF text # <<>> /\ \A k \in 1..Len(text) : text[k] \in DecimalDigits
    THEN <<DecimalValue(text), 1>>
    ELSE NaNValue

\* _BYTEARRAY_RE.search(raw): a VIN cell is [bytearray |-> b, text |-> t],
\* standing for bytearray(b'<t>') or for the plain text t
_extract_vin(raw) ==
    IF raw.bytearray THEN raw.text
    ELSE IF raw.text # <<>> /\ raw.text # <<"N/A">> THEN raw.text
    ELSE <<>>

\* hashlib.sha256(raw_vin.encode()).hexdigest()[:8]
Sha256Prefix(raw_vin) ==
    IF raw_vin = <<"1", "H", "G", "C", "M", "8", "2", "6", "3", "3", "A", "0", "0",
                   "4", "3", "5", "2">>
    THEN <<"8", "4", "b", "1", "1", "9", "5", "6">>
    ELSE IF raw_vin = <<"J", "H", "4", "K", "A", "7", "5", "6", "1", "P", "C", "0",
                        "0", "8", "2", "6", "9">>
    THEN <<"8", "6", "5", "4", "9", "c", "a", "2">>
    ELSE <<"0", "2", "5", "2", "b", "a", "b", "a">>

pseudonymise_vin(raw_vin) == <<"V", "-">> \o Upper(Sha256Prefix(raw_vin))

V_UNKNOWN == <<"V", "-", "U", "N", "K", "N", "O", "W", "N">>

(***************************************************************************)
(* _parse_dtc_list.  A DTC cell is [text |-> characters, literal |-> what  *)
(* ast.literal_eval makes of them]: [ok |-> FALSE] when it raises          *)
(* ValueError or SyntaxError, else the value, [list |-> BOOLEAN,           *)
(* items |-> sequence].  An item is [kind |-> "pair", code, desc], a tuple *)
(* of another length ("tuple1"), a string ("str") or a number ("int");     *)
(* the code of a pair is [str |-> BOOLEAN, text |-> characters].           *)
(***************************************************************************)
\* _DTC_CODE_RE.findall(raw): non-overlapping matches, left to right
RECURSIVE FindCodes(_)
FindCodes(text) ==
    IF Len(text) < 5 THEN <<>>
    ELSE IF /\ text[1] \in {"P", "C", "B", "U"}
            /\ \A k \in 2..5 : text[k] \in AnyHex
         THEN <<SubSeq(text, 1, 5)>> \o FindCodes(SubSeq(text, 6, Len(text)))
    ELSE FindCodes(Tail(text))

\* _DTC_CODE_RE fallback: [(c.upper(), "") for c in codes]
RegexFallback(text) ==
    LET codes == FindCodes(text)
    IN [k \in 1..Len(codes) |-> [code |-> [str |-> TRUE, text |-> Upper(codes[k])],
                                 desc |-> <<>>]]

\* [(code, desc) for code, desc in parsed]: the first item that cannot be
\* unpacked decides the exception
RECURSIVE UnpackPairs(_)
UnpackPairs(items) ==
    IF items = <<>> THEN [status |-> "ok", pairs |-> <<>>]
    ELSE LET item == Head(items)
         IN IF item.kind = "int" THEN [status |-> "TypeError", pairs |-> <<>>]
            ELSE IF item.kind # "pair" THEN [status |-> "ValueError", pairs |-> <<>>]
            ELSE LET rest == UnpackPairs(Tail(items))
                 IN IF rest.status # "ok" THEN rest
                    ELSE [status |-> "ok",
                          pairs |-> <<[code |-> item.code, desc |-> item.desc]>>
                                    \o rest.pairs]

\* status "ok" with the (code, desc) pairs, or the exception that escapes
_parse_dtc_list(raw) ==
    IF raw.text \in {<<"[", "]">>, <<"N/A">>, <<>>} THEN [status |-> "ok", pairs |-> <<>>]
    ELSE IF raw.literal.ok /\ raw.literal.list
    THEN LET u == UnpackPairs(raw.literal.items)
         IN IF u.status = "ValueError"
            THEN [status |-> "ok", pairs |-> RegexFallback(raw.text)]
            ELSE u
    ELSE [status |-> "ok", pairs |-> RegexFallback(raw.text)]

(***************************************************************************)
(* time_series_normalizer.py.  A row maps column names to cell texts; a    *)
(* frame is [index |-> ascending timestamps, cols |-> column name ->       *)
(* values along the index].  Two of the PID columns of the table are       *)
(* represented.                                                            *)
(***************************************************************************)
_PID_SEMANTIC_NAMES == [RPM |-> "engine_rpm", SPEED |-> "vehicle_speed"]

_SEMANTIC_TO_PID == [engine_rpm |-> "RPM", vehicle_speed |-> "SPEED"]

_SEMANTIC_UNITS == [engine_rpm |-> "rpm", vehicle_speed |-> "km/h"]

SemanticColumns == {_PID_SEMANTIC_NAMES[pid] : pid \in DOMAIN _PID_SEMANTIC_NAMES}

\* row.get(col, default)
RowGet(row, col, default) == IF col \in DOMAIN row THEN row[col] ELSE default

RECURSIVE RSumSeq(_)
RSumSeq(s) == IF s = <<>> THEN RZero ELSE RAdd(Head(s), RSumSeq(Tail(s)))

\* Series.mean(): missing values are skipped
NanMean(values) ==
    LET valid == SelectSeq(values, LAMBDA v : ~IsNaN(v))
        total == RSumSeq(valid)
    IN IF valid = <<>> THEN NaNValue ELSE Rat(total[1], total[2] * Len(valid))

\* the rows _rows_to_raw_dataframe keeps: those whose Timestamp parses
ParsedRows(rows) == SelectSeq(rows, LAMBDA row : Strptime(RowGet(row, "Timestamp", <<>>)).ok)

RowTime(row) == Strptime(RowGet(row, "Timestamp", <<>>)).ts

\* the record of one kept row, after pd.to_numeric(errors="coerce")
RowValue(row, semantic) ==
    LET pid == _SEMANTIC_TO_PID[semantic]
    IN IF pid \in DOMAIN row THEN ToNumeric(row[pid]) ELSE NaNValue

\* groupby(index).mean() without the duplicates check: one row per timestamp
GroupedFrame(kept) ==
    LET index == SetToSortedSeq({RowTime(kept[k]) : k \in 1..Len(kept)})
    IN [index |-> index,
        cols |-> [semantic \in SemanticColumns |->
                    [k \in 1..Len(index) |->
                        LET same == SelectSeq(kept, LAMBDA row : RowTime(row) = index[k])
                        IN NanMean([j \in 1..Len(same) |-> RowValue(same[j], semantic)])]]]

_rows_to_raw_dataframe(rows) == GroupedFrame(ParsedRows(rows))

EmptyFrame(df) == df.index = <<>>

\* pd.date_range(start=start, end=end, freq=freq)
DateRange(start, end, freq) == [k \in 1..((end - start) \div freq + 1) |-> start + (k - 1) * freq]

\* positions of the index with a value in the column, before / after time t
ValidBefore(df, col, t) == {k \in 1..Len(df.index) : df.index[k] <= t /\ ~IsNaN(df.cols[col][k])}
ValidAfter(df, col, t) == {k \in 1..Len(df.index) : df.index[k] >= t /\ ~IsNaN(df.cols[col][k])}
SetMax(S) == CHOOSE x \in S : \A y \in S : y <= x
SetMin(S) == CHOOSE x \in S : \A y \in S : x <= y

\* reindex(union).interpolate(method="time").reindex(new_index), one cell:
\* linear in time between the neighbouring values; after the last value it
\* is carried forward, before the first value nothing is filled
InterpolateAt(df, col, t) ==
    LET before == ValidBefore(df, col, t)
        after == ValidAfter(df, col, t)
    IN IF before = {} THEN NaNValue
       ELSE LET p == SetMax(before)
            IN IF after = {} \/ df.index[p] = t THEN df.cols[col][p]
               ELSE LET n == SetMin(after)
                        tp == df.index[p]
                        tn == df.index[n]
                        weighted == RAdd(RMul(df.cols[col][p], <<tn - t, 1>>),
                                         RMul(df.cols[col][n], <<t - tp, 1>>))
                    IN Rat(weighted[1], weighted[2] * (tn - tp))

\* df.reindex(new_index, method=...), one cell
ReindexAt(df, col, t, fill_method) ==
    LET at == {k \in 1..Len(df.index) : df.index[k] = t}
        upto == {k \in 1..Len(df.index) : df.index[k] <= t}
        from == {k \in 1..Len(df.index) : df.index[k] >= t}
    IN IF fill_method = "ffill" THEN (IF upto = {} THEN NaNValue ELSE df.cols[col][SetMax(upto)])
       ELSE IF fill_method = "bfill" THEN (IF from = {} THEN NaNValue ELSE df.cols[col][SetMin(from)])
       ELSE IF at = {} THEN NaNValue ELSE df.cols[col][SetMin(at)]

_resample_dataframe(df, interval_seconds, fill_method) ==
    IF EmptyFrame(df) THEN df
    ELSE LET start == df.index[1]
             end == df.index[Len(df.index)]
             new_index == DateRange(start, end, interval_seconds)
         IN [index |-> new_index,
             cols |-> [col \in DOMAIN df.cols |->
                        [k \in 1..Len(new_index) |->
                            IF fill_method = "interpolate"
                            THEN InterpolateAt(df, col, new_index[k])
                            ELSE ReindexAt(df, col, new_index[k], fill_method)]]]

\* the cells _extract_metadata reads, in reading order
RECURSIVE DtcCells(_)
DtcCells(rows) ==
    IF rows = <<>> THEN <<>>
    ELSE LET none == [text |-> <<"[", "]">>, literal |-> [ok |-> TRUE, list |-> TRUE, items |-> <<>>]]
         IN <<RowGet(Head(rows), "GET_DTC", none), RowGet(Head(rows), "GET_CURRENT_DTC", none)>>
            \o DtcCells(Tail(rows))

\* code = code.upper(); if code not in seen: dtc_codes.append(code)
RECURSIVE CollectPairs(_, _)
CollectPairs(pairs, dtc_codes) ==
    IF pairs = <<>> THEN [status |-> "ok", dtc_codes |-> dtc_codes]
    ELSE LET code == Head(pairs).code
         IN IF ~code.str THEN [status |-> "AttributeError", dtc_codes |-> dtc_codes]
            ELSE CollectPairs(Tail(pairs),
                              IF Upper(code.text) \in Range(dtc_codes) THEN dtc_codes
                              ELSE Append(dtc_codes, Upper(code.text)))

RECURSIVE CollectCells(_, _)
CollectCells(cells, dtc_codes) ==
    IF cells = <<>> THEN [status |-> "ok", dtc_codes |-> dtc_codes]
    ELSE LET parsedCell == _parse_dtc_list(Head(cells))
         IN IF parsedCell.status # "ok"
            THEN [status |-> parsedCell.status, dtc_codes |-> dtc_codes]
            ELSE LET collected == CollectPairs(parsedCell.pairs, dtc_codes)
                 IN IF collected.status # "ok" THEN collected
                    ELSE CollectCells(Tail(cells), collected.dtc_codes)

\* an override is [given |-> BOOLEAN, text |-> characters]; None is not given
NoOverride == [given |-> FALSE, text |-> <<>>]

_extract_metadata(rows, vehicle_id_override) ==
    LET raw_vin == IF rows = <<>> THEN <<>>
                   ELSE _extract_vin(RowGet(rows[1], "VIN", [bytearray |-> FALSE, text |-> <<>>]))
        vehicle_id == IF vehicle_id_override.given THEN vehicle_id_override.text
                      ELSE IF raw_vin # <<>> THEN pseudonymise_vin(raw_vin)
                      ELSE V_UNKNOWN
        collected == CollectCells(DtcCells(rows), <<>>)
    IN [status |-> collected.status, vehicle_id |-> vehicle_id,
        dtc_codes |-> collected.dtc_codes]

FillMethod == {"interpolate", "ffill", "bfill", "none"}

Raised(exception) == [status |-> exception]

\* the NormalizedTimeSeries, or the exception that escapes
normalize_rows(rows, interval_seconds, fill_method, vehicle_id) ==
    IF rows = <<>> THEN Raised("ValueError")
    ELSE IF interval_seconds <= 0 THEN Raised("ValueError")
    ELSE LET raw_df == _rows_to_raw_dataframe(rows)
             original_count == Len(raw_df.index)
             resampled == _resample_dataframe(raw_df, interval_seconds, fill_method)
             meta == _extract_metadata(rows, vehicle_id)
             start_dt == IF EmptyFrame(resampled) THEN NaT ELSE resampled.index[1]
             end_dt == IF EmptyFrame(resampled) THEN NaT
                       ELSE resampled.index[Len(resampled.index)]
         IN IF meta.status # "ok" THEN Raised(meta.status)
            ELSE [status |-> "ok",
                  df |-> resampled,
                  vehicle_id |-> meta.vehicle_id,
                  time_range |-> <<start_dt, end_dt>>,
                  dtc_codes |-> meta.dtc_codes,
                  column_units |-> _SEMANTIC_UNITS,
                  column_pid_names |-> _SEMANTIC_TO_PID,
                  resample_interval_seconds |-> interval_seconds,
                  fill_method |-> fill_method,
                  original_sample_count |-> original_count]

NotNormalized == <<>>

\* one call of normalize_rows on the given arguments
NormalizeRows ==
    /\ nzIn # <<>>
    /\ nzOut = NotNormalized
    /\ nzOut' = normalize_rows(nzIn.rows, nzIn.interval_seconds, nzIn.fill_method,
                               nzIn.vehicle_id)
    /\ UNCHANGED <<logFile, parsed, nzIn, statistics, adVars, cgVars, ldVars, mgVars>>

(***************************************************************************)
(* statistics_extractor.py.  Of the fifteen fields of SignalStats the      *)
(* count, the extremes, the mean and the largest step are represented;     *)
(* the others do not bear on the keys or the count.                        *)
(***************************************************************************)
\* round(v, decimal_places) with decimal_places = 4; no value of the
\* bounded inputs lies halfway between two neighbours
_r(v) ==
    LET scaled == 10000 * v[1]
        floor == scaled \div v[2]
    IN IF 2 * (scaled - floor * v[2]) >= v[2] THEN Rat(floor + 1, 10000)
       ELSE Rat(floor, 10000)

RAbsDiff(a, b) ==
    IF RLe(a, b) THEN Rat(b[1] * a[2] - a[1] * b[2], a[2] * b[2])
    ELSE Rat(a[1] * b[2] - b[1] * a[2], a[2] * b[2])

RECURSIVE RMinSeq(_)
RMinSeq(s) == IF Len(s) = 1 THEN s[1] ELSE RMin(Head(s), RMinSeq(Tail(s)))
RECURSIVE RMaxSeq(_)
RMaxSeq(s) == IF Len(s) = 1 THEN s[1] ELSE RMax(Head(s), RMaxSeq(Tail(s)))

\* df[col].dropna().to_numpy()
dropna(values) == SelectSeq(values, LAMBDA v : ~IsNaN(v))

\* values is not empty and holds no NaN
_compute_signal_stats(values) ==
    LET n == Len(values)
        total == RSumSeq(values)
        diffs == [k \in 1..(n - 1) |-> RAbsDiff(values[k + 1], values[k])]
    IN [mean |-> _r(Rat(total[1], total[2] * n)),
        min |-> _r(RMinSeq(values)),
        max |-> _r(RMaxSeq(values)),
        max_abs_change |-> IF n >= 2 THEN _r(RMaxSeq(diffs)) ELSE NaNValue,
        valid_count |-> n]

\* dict(ts.column_units), every unit kept
UnfilteredUnits(units, stats) == units

\* {k: v for k, v in ts.column_units.items() if k in stats}
ColumnUnits(units, stats) == [k \in DOMAIN units \cap DOMAIN stats |-> units[k]]

\* the SignalStatistics, or the exception that escapes
extract_statistics(nts) ==
    IF EmptyFrame(nts.df) THEN Raised("ValueError")
    ELSE LET kept == {col \in DOMAIN nts.df.cols : Len(dropna(nts.df.cols[col])) # 0}
             stats == [col \in kept |-> _compute_signal_stats(dropna(nts.df.cols[col]))]
         IN [status |-> "ok",
             stats |-> stats,
             vehicle_id |-> nts.vehicle_id,
             time_range |-> nts.time_range,
             dtc_codes |-> nts.dtc_codes,
             column_units |-> ColumnUnits(nts.column_units, stats),
             resample_interval_seconds |-> nts.resample_interval_seconds]

NoStatistics == <<>>

\* one call of extract_statistics on the normalised series
ExtractStatistics ==
    /\ nzOut # NotNormalized
    /\ nzOut.status = "ok"
    /\ statistics = NoStatistics
    /\ statistics' = extract_statistics(nzOut)
    /\ UNCHANGED <<logFile, parsed, nzIn, nzOut, adVars, cgVars, ldVars, mgVars>>

(***************************************************************************)
(* Arguments of normalize_rows.                                            *)
(***************************************************************************)
Vin1 == <<"1", "H", "G", "C", "M", "8", "2", "6", "3", "3", "A", "0", "0", "4", "3", "5", "2">>
Vin2 == <<"J", "H", "4", "K", "A", "7", "5", "6", "1", "P", "C", "0", "0", "8", "2", "6", "9">>

VinBytearray(vin) == [bytearray |-> TRUE, text |-> vin]
VinPlain(text) == [bytearray |-> FALSE, text |-> text]

StrCode(text) == [str |-> TRUE, text |-> text]
IntCode == [str |-> FALSE, text |-> <<>>]
PairItem(code, desc) == [kind |-> "pair", code |-> code, desc |-> desc]
DtcList(text, items) ==
    [text |-> text, literal |-> [ok |-> TRUE, list |-> TRUE, items |-> items]]
DtcText(text) ==
    [text |-> text, literal |-> [ok |-> FALSE, list |-> FALSE, items |-> <<>>]]

\* []
DtcNone == DtcList(<<"[", "]">>, <<>>)
\* [('P0301', 'Misfire')]
DtcMisfire == DtcList(<<"[('">> \o P0301 \o <<"', 'Misfire')]">>,
                      <<PairItem(StrCode(P0301), <<"Misfire">>)>>)
\* [('p0171', '')]
DtcLowerCase == DtcList(<<"[('", "p", "0", "1", "7", "1", "', '')]">>,
                        <<PairItem(StrCode(<<"p", "0", "1", "7", "1">>), <<>>)>>)
\* [('x9999', 'd')]
DtcNotACode == DtcList(<<"[('", "x", "9", "9", "9", "9", "', '", "d", "')]">>,
                       <<PairItem(StrCode(<<"x", "9", "9", "9", "9">>), <<"d">>)>>)
\* [1]
DtcNumberItem == DtcList(<<"[", "1", "]">>, <<[kind |-> "int"]>>)
\* [(1, 2)]
DtcNumberCode == DtcList(<<"[(", "1", ", ", "2", ")]">>, <<PairItem(IntCode, <<>>)>>)
\* ['P0301']
DtcBareString == DtcList(<<"['">> \o P0301 \o <<"']">>, <<[kind |-> "str"]>>)
\* DTC: P0300 and p0301 stored
DtcSalvage == DtcText(<<"DTC: ">> \o P0300 \o <<" and ", "p", "0", "3", "0", "1", " stored">>)

RowPool ==
    {[Timestamp |-> TimestampText(0), RPM |-> <<"8", "0", "0">>, SPEED |-> <<"0">>,
      VIN |-> VinBytearray(Vin1), GET_DTC |-> DtcMisfire, GET_CURRENT_DTC |-> DtcNone],
     [Timestamp |-> TimestampText(0), RPM |-> <<"9", "0", "0">>, SPEED |-> <<"N/A">>,
      VIN |-> VinPlain(Vin2), GET_DTC |-> DtcLowerCase, GET_CURRENT_DTC |-> DtcMisfire],
     [Timestamp |-> TimestampText(1), RPM |-> <<"8", "5", "0">>,
      VIN |-> VinPlain(<<"N/A">>), GET_DTC |-> DtcSalvage],
     [Timestamp |-> TimestampText(2), RPM |-> <<"N/A">>, SPEED |-> <<"1", "0">>,
      GET_DTC |-> DtcBareString],
     [Timestamp |-> TimestampText(3), RPM |-> <<"1", "0", "0", "0">>, SPEED |-> <<"N/A">>,
      GET_DTC |-> DtcNotACode],
     [Timestamp |-> TimestampText(1), RPM |-> <<"7", "0", "0">>, GET_DTC |-> DtcNumberItem],
     [Timestamp |-> TimestampText(2), GET_CURRENT_DTC |-> DtcNumberCode],
     [Timestamp |-> <<DatePrefix, "6", "1">>, RPM |-> <<"7", "5", "0">>,
      VIN |-> VinBytearray(Vin2), GET_DTC |-> DtcMisfire],
     [RPM |-> <<"7", "5", "0">>, SPEED |-> <<"5">>]}

MaxRowsIn == 2

IntervalSeconds == {0, 1, 2}

Overrides ==
    {NoOverride,
     [given |-> TRUE, text |-> <<"V", "-", "1", "A", "2", "B", "3", "C", "4", "D">>],
     [given |-> TRUE, text |-> Vin1]}

InitNormalize ==
    /\ nzIn \in [rows : SeqsUpTo(RowPool, MaxRowsIn), interval_seconds : IntervalSeconds,
                 fill_method : FillMethod, vehicle_id : Overrides]
    /\ nzOut = NotNormalized
    /\ statistics = NoStatistics
    /\ logFile = <<>>
    /\ parsed = <<>>
    /\ AdIdle
    /\ CgIdle
    /\ LdIdle
    /\ MgIdle

NextNormalize ==
    \/ NormalizeRows
    \/ ExtractStatistics

SpecNormalize == InitNormalize /\ [][NextNormalize]_vars

(***************************************************************************)
(* _merge_overlapping_events on event lists of its own: the events the     *)
(* two detectors can hand over, in any order.                              *)
(***************************************************************************)
\* an event as a detector builds it: the severity is that of its fields
DetectedEvent(start, end, signals, detector, score, context) ==
    AnomalyEvent(start, end, signals,
                 PatternText(IF detector = "changepoint" THEN "Change-point"
                             ELSE "Multivariate outlier", signals, end - start, score),
                 context,
                 _compute_severity(Len(signals), score, end - start,
                                   \E i \in 1..Len(signals) : signals[i] \in _CRITICAL_SIGNALS),
                 detector, score)

EventPool ==
    {DetectedEvent(0, 10, <<"engine_rpm">>, "changepoint", <<0, 1>>, "idle"),
     DetectedEvent(2, 3, <<"engine_rpm">>, "changepoint", <<1, 1>>, "idle"),
     DetectedEvent(5, 20, <<"vehicle_speed", "engine_rpm">>, "isolation_forest",
                   <<1, 2>>, "acceleration"),
     DetectedEvent(20, 30, <<"o2_b1s2", "vehicle_speed">>, "changepoint", <<1, 1>>,
                   "cruise"),
     DetectedEvent(40, 50, <<"o2_b1s2">>, "changepoint", <<1, 4>>, "unknown"),
     DetectedEvent(45, 400, <<"o2_b1s2", "throttle_position">>, "isolation_forest",
                   <<1, 1>>, "cruise"),
     DetectedEvent(60, 70, <<"o2_b1s2">>, "isolation_forest", <<1, 4>>, "off")}

MaxMergeEvents == 3

NotMerged == [returned |-> FALSE, events |-> <<>>]
Merged(events) == [returned |-> TRUE, events |-> events]

\* one call of _merge_overlapping_events on the given list
MergeEvents ==
    /\ mgIn # <<>>
    /\ ~mgOut.returned
    /\ mgOut' = Merged(_merge_overlapping_events(mgIn.events))
    /\ UNCHANGED <<mgIn, mgAgain, adVars, cgVars, ldVars, pipeVars>>

\* a second call, on the list the first one returned
MergeAgain ==
    /\ mgIn # <<>>
    /\ mgOut.returned
    /\ ~mgAgain.returned
    /\ mgAgain' = Merged(_merge_overlapping_events(mgOut.events))
    /\ UNCHANGED <<mgIn, mgOut, adVars, cgVars, ldVars, pipeVars>>

InitMerge ==
    /\ mgIn \in [events : SeqsUpTo(EventPool, MaxMergeEvents)]
    /\ mgOut = NotMerged
    /\ mgAgain = NotMerged
    /\ AdIdle
    /\ CgIdle
    /\ LdIdle
    /\ PipeIdle

NextMerge ==
    \/ MergeEvents
    \/ MergeAgain

SpecMerge == InitMerge /\ [][NextMerge]_vars

(***************************************************************************)
(* Properties of detect_anomalies.                                         *)
(***************************************************************************)
DetectorEvents == cp_events \o if_events

\* C1: the events of a returned AnomalyReport are in ascending order of
\* window start, and each event starts strictly after the event before it
\* ends (no two events overlap or touch).
C1_EventsSortedDisjoint ==
    report.returned =>
        \A i \in 1..(Len(report.events) - 1) :
            /\ report.events[i].time_window[1] <= report.events[i + 1].time_window[1]
            /\ report.events[i].time_window[2] < report.events[i + 1].time_window[1]

\* a report of several events, some of which came out of a merge
C1_Witness ==
    /\ report.returned
    /\ Len(report.events) >= 2
    /\ Len(report.events) < Len(DetectorEvents)

WellFormedEvent(e) ==
    /\ Len(e.signals) >= 1
    /\ NoDup(e.signals)
    /\ e.time_window[1] <= e.time_window[2]
    /\ RLe(RZero, e.score) /\ RLe(e.score, ROne)
    /\ e.severity \in Severities
    /\ e.context \in Contexts
    /\ e.detector \in Detectors

\* C2: every event of a returned report, from either detector or from a
\* merge, has a non-empty duplicate-free signals tuple, start <= end, a score
\* in [0,1], and severity, context and detector drawn from their enumerations.
C2_EventsWellFormed ==
    report.returned =>
        \A i \in 1..Len(report.events) : WellFormedEvent(report.events[i])

\* a report holding a merged event of both detectors, a plain change-point
\* event and a plain isolation-forest event whose raw score was clipped
C2_Witness ==
    /\ report.returned
    /\ \E i, j, k \in 1..Len(report.events) :
          /\ report.events[i].detector = "combined"
          /\ report.events[j].detector = "changepoint"
          /\ report.events[k].detector = "isolation_forest"
          /\ report.events[k].score = ROne

(***************************************************************************)
(* Properties of generate_clues and _load_rules.                           *)
(***************************************************************************)
Calls == DOMAIN cgCall
Returned(c) == cgCall[c].pc = "done"
\* the rule list the call was given: the rules argument, or the file's rules
GivenRules == IF cgIn.rules_given THEN cgIn.rules ELSE cgIn.doc.rules

\* C3: every clue of every returned report has a non-empty evidence tuple,
\* whether the rules were loaded from a file or passed directly.
C3_EveryClueHasEvidence ==
    \A c \in Calls :
        Returned(c) =>
            \A k \in 1..Len(cgCall[c].report.clues) :
                cgCall[c].report.clues[k].evidence # <<>>

\* a replacement field whose name is not in the context, or that names a
\* field of a signal without statistics, or an unknown field of a known signal
MissingPlaceholder(part, stats) ==
    /\ part.kind = "field"
    /\ \/ part.name \notin DOMAIN stats.stats \cup {"anomaly_count", "matched_dtcs"}
       \/ /\ part.name \in DOMAIN stats.stats
          /\ part.attr # ""
          /\ part.attr \notin _SIGNAL_STATS_FIELDS

HasMissingPlaceholder(rule, stats) ==
    \E p \in 1..Len(rule.template) : MissingPlaceholder(rule.template[p], stats)

\* the text the template stands for when each missing placeholder is "N/A"
RECURSIVE TextWithNA(_, _, _)
TextWithNA(template, ctx, stats) ==
    IF template = <<>> THEN <<>>
    ELSE LET part == Head(template)
             text == IF part.kind = "lit" THEN <<part.text>>
                     ELSE IF MissingPlaceholder(part, stats)
                     THEN (IF part.spec \in {"", ".2f"} THEN <<>> ELSE <<part.spec>>)
                          \o <<"N/A">>
                     ELSE RenderField(part, ctx).text
         IN text \o TextWithNA(Tail(template), ctx, stats)

\* C4: a fired rule whose template references a missing placeholder still
\* yields its clue, with "N/A" in the placeholder's place, and the call does
\* not raise.
C4_MissingPlaceholderRendersNA ==
    \A c \in Calls :
        \A k \in 1..Len(cgCall[c].trace) :
            LET rule == cgCall[c].rules[k]
                entry == cgCall[c].trace[k]
                r == RuleConditions(rule, cgIn.stats, cgIn.anomalies, cgIn.stats.dtc_codes)
                ctx == WriteDynamic(_build_template_context(cgIn.stats),
                                    r.anomaly_count, r.matched_dtcs)
            IN (entry.fired /\ HasMissingPlaceholder(rule, cgIn.stats)) =>
                  /\ entry.outcome = "clue"
                  /\ \E n \in 1..Len(cgCall[c].matched_clues) :
                        /\ cgCall[c].src[n] = k
                        /\ cgCall[c].matched_clues[n].clue
                              = TextWithNA(rule.template, ctx, cgIn.stats)

\* every condition of the rule, evaluated on its own
ConditionResults(rule) ==
    [j \in 1..Len(rule.conditions) |->
        EvalCondition(rule.conditions[j], cgIn.stats, cgIn.anomalies,
                      cgIn.stats.dtc_codes, 0, <<>>)]

AllConditionsMatch(rule) ==
    \A j \in 1..Len(rule.conditions) :
        ConditionResults(rule)[j].known /\ ConditionResults(rule)[j].matched

RECURSIVE ConcatEvidence(_, _)
ConcatEvidence(results, j) ==
    IF j > Len(results) THEN <<>>
    ELSE results[j].evidence \o ConcatEvidence(results, j + 1)

\* C5: an evaluated rule produces a clue exactly when all its conditions
\* match; otherwise evaluation stopped at the first condition that does not
\* match; the clue's evidence is the conditions' evidence in condition order.
C5_AndSemantics ==
    \A c \in Calls :
        \A k \in 1..Len(cgCall[c].trace) :
            LET rule == cgCall[c].rules[k]
                entry == cgCall[c].trace[k]
            IN /\ (entry.outcome = "clue") <=> AllConditionsMatch(rule)
               /\ ~AllConditionsMatch(rule) =>
                     /\ entry.evaluated \in 1..Len(rule.conditions)
                     /\ LET last == ConditionResults(rule)[entry.evaluated]
                        IN ~(last.known /\ last.matched)
                     /\ \A j \in 1..(entry.evaluated - 1) :
                           ConditionResults(rule)[j].matched
               /\ \A n \in 1..Len(cgCall[c].matched_clues) :
                     cgCall[c].src[n] = k =>
                        cgCall[c].matched_clues[n].evidence
                           = ConcatEvidence(ConditionResults(rule), 1)

\* the condition loop alone: a rule reaches the template step exactly when
\* all its conditions match
C5_ConditionLoopOnly ==
    \A c \in Calls :
        \A k \in 1..Len(cgCall[c].trace) :
            cgCall[c].trace[k].fired <=> AllConditionsMatch(cgCall[c].rules[k])

\* C6: in every returned report rules_matched is the number of clues,
\* rules_applied is the number of rules of the evaluated list, and
\* rules_matched <= rules_applied.
C6_ReportCounts ==
    \A c \in Calls :
        Returned(c) =>
            LET rep == cgCall[c].report
            IN /\ rep.rules_matched = Len(rep.clues)
               /\ rep.rules_applied = Len(GivenRules)
               /\ rep.rules_matched <= rep.rules_applied

C6_Witness ==
    \E c \in Calls :
        /\ Returned(c)
        /\ cgCall[c].report.rules_matched = 1
        /\ cgCall[c].report.rules_applied = 2

\* C7: the clues of a returned report follow the order of their rules in
\* the evaluated list, a rule contributes at most one clue, and each clue
\* carries the id, category and severity of the rule that fired.
C7_ClueOrderFollowsRules ==
    \A c \in Calls :
        Returned(c) =>
            LET clues == cgCall[c].report.clues
                src == cgCall[c].src
            IN /\ Len(src) = Len(clues)
               /\ \A n \in 1..Len(clues) :
                     /\ src[n] \in 1..Len(GivenRules)
                     /\ cgCall[c].trace[src[n]].fired
                     /\ clues[n].rule_id = GivenRules[src[n]].id
                     /\ clues[n].category = GivenRules[src[n]].category
                     /\ clues[n].severity = GivenRules[src[n]].severity
               /\ \A n, m \in 1..Len(clues) : n < m => src[n] < src[m]

C7_Witness ==
    \E c \in Calls :
        /\ Returned(c)
        /\ Len(cgCall[c].report.clues) = 2
        /\ cgCall[c].report.clues[1].rule_id # cgCall[c].report.clues[2].rule_id
        /\ cgCall[c].report.clues[1].severity # cgCall[c].report.clues[2].severity

\* what C8 calls a valid rule file
ValidRule(rule) ==
    /\ {"id", "category", "severity", "conditions", "template"} \subseteq DOMAIN rule
    /\ rule.category \in {"statistical", "anomaly", "interaction", "dtc",
                          "negative_evidence"}
    /\ rule.severity \in {"info", "warning", "critical"}
    /\ rule.conditions # <<>>
    /\ \A j \in 1..Len(rule.conditions) :
          /\ "type" \in DOMAIN rule.conditions[j]
          /\ rule.conditions[j].type \in {"stat_check", "anomaly_check", "dtc_check",
                                          "stat_compare", "signal_exists"}

ValidFile(doc) ==
    /\ doc.yaml = "list"
    /\ \A k \in 1..Len(doc.rules) : ValidRule(doc.rules[k])
    /\ \A k, m \in 1..Len(doc.rules) : k # m => doc.rules[k].id # doc.rules[m].id

\* C8: _load_rules returns a rule list (the file's) only for a valid rule
\* file; for every other file it raises and returns no rule list.
C8_LoadRulesValidates ==
    loaded.status # "none" =>
        /\ (loaded.status = "returned") <=> ValidFile(ruleFile)
        /\ loaded.status = "returned" => loaded.rules = ruleFile.rules
        /\ ~ValidFile(ruleFile) =>
              loaded.status = "raised" /\ loaded.error # "" /\ loaded.rules = <<>>

C8_Witness ==
    /\ loaded.status = "returned"
    /\ Len(loaded.rules) = 2
    /\ \E k \in 1..2 : loaded.rules[k].conditions[1].type = "dtc_check"

\* a condition with an unknown field, operator or mode
UnknownCondition(cond) ==
    \/ /\ cond.type = "stat_check"
       /\ \/ cond.field \notin _SIGNAL_STATS_FIELDS
          \/ cond.op \notin {"eq", "ne", "lt", "le", "gt", "ge"}
    \/ /\ cond.type = "stat_compare"
       /\ \/ cond.field_a \notin _SIGNAL_STATS_FIELDS
          \/ cond.field_b \notin _SIGNAL_STATS_FIELDS
          \/ cond.op \notin {"eq", "ne", "lt", "le", "gt", "ge"}
    \/ /\ cond.type = "dtc_check"
       /\ "mode" \in DOMAIN cond
       /\ cond.mode \notin {"present", "absent", "prefix", "absent_prefix"}

HasUnknownCondition(rule) ==
    \E j \in 1..Len(rule.conditions) : UnknownCondition(rule.conditions[j])

\* C9: a rule with a condition on an unknown field, operator or DTC mode
\* does not fire and does not raise, and the loop goes on to the next rule.
C9_UnknownDoesNotMatch ==
    \A c \in Calls :
        LET call == cgCall[c]
        IN /\ \A k \in 1..Len(call.trace) :
                 HasUnknownCondition(call.rules[k]) =>
                    /\ ~call.trace[k].fired
                    /\ call.trace[k].outcome = "none"
                    /\ \A n \in 1..Len(call.src) : call.src[n] # k
                    /\ \/ call.i > k
                       \/ call.pc = "done"
           /\ (call.pc = "loop" /\ call.i <= Len(call.rules)
               /\ HasUnknownCondition(call.rules[call.i])) => call.error = ""
           /\ call.pc = "done" => Len(call.trace) = Len(call.rules)

C9_Witness ==
    \E c \in Calls :
        /\ Returned(c)
        /\ Len(cgCall[c].rules) = 2
        /\ Len(cgCall[c].rules[1].conditions) = 2
        /\ UnknownCondition(cgCall[c].rules[1].conditions[2])
        /\ cgCall[c].trace[1].evaluated = 2
        /\ cgCall[c].src = <<2>>

\* C10: under every interleaving of two calls on the same inputs, each call
\* ends as it ends when it runs alone: the same report, or the same error.
C10_CallsDoNotInterfere ==
    \A c \in Calls :
        LET alone == GenerateCluesAlone(cgIn)
        IN /\ cgCall[c].pc = "done" =>
                 alone.status = "done" /\ cgCall[c].report = alone.report
           /\ cgCall[c].pc = "raised" =>
                 alone.status = "raised" /\ cgCall[c].error = alone.error

C10_Witness ==
    /\ Calls = {1, 2}
    /\ Returned(1)
    /\ Len(cgCall[1].report.clues) = 2
    /\ cgCall[2].pc = "format"
    /\ cgCall[2].i = 1
    /\ cgCall[2].locals.anomaly_count > 0
    /\ heap[RuleCtxId(2)]["anomaly_count"].val # heap[RuleCtxId(1)]["anomaly_count"].val

\* C11: two calls of generate_clues in a row on the same statistics, anomaly
\* report and rule list end alike (equal reports, or the same error), and no
\* step of a call changes the statistics, the anomaly report or the rules.
C11_RepeatableAndReadOnly ==
    /\ [](\A c, d \in Calls :
            /\ (Returned(c) /\ Returned(d)) => cgCall[c].report = cgCall[d].report
            /\ (Ended(c) /\ Ended(d)) =>
                  cgCall[c].pc = cgCall[d].pc /\ cgCall[c].error = cgCall[d].error
            /\ cgCall[c].pc \in {"loop", "write", "format", "done"} =>
                  cgCall[c].rules = GivenRules
                  /\ cgCall[c].dtc_codes = cgIn.stats.dtc_codes)
    /\ [][cgIn' = cgIn]_vars

C11_Witness ==
    /\ Calls = {1, 2}
    /\ Returned(1) /\ Returned(2)
    /\ Len(cgCall[1].report.clues) = 2
    /\ cgCall[2].report.clues = cgCall[1].report.clues
    /\ cgCall[1].report.clues[1].clue # cgCall[1].report.clues[2].clue

\* contamination (a fraction <<n, d>>, d > 0) outside (0, 0.5], or
\* min_segment_length below 2
RejectedParams(p) ==
    \/ p.contamination[1] <= 0
    \/ 2 * p.contamination[1] > p.contamination[2]
    \/ p.min_segment_length < 2

\* C12: detect_anomalies rejects a contamination outside (0, 0.5] and a
\* min_segment_length below 2 before it looks at the data: the call raises
\* and returns no report, also when the matrix has fewer than 20 rows.
C12_InvalidParamsRejected ==
    /\ RejectedParams(params) =>
          /\ adPc \in {"call", "raised"}
          /\ ~report.returned
          /\ columns = <<>> /\ cp_events = <<>> /\ if_events = <<>>
    /\ adPc = "raised" => RejectedParams(params)

C12_Witness ==
    /\ adPc = "raised"
    /\ ts.nrows < 20
    /\ params.min_segment_length < 2

\* a column with two different non-null values
VariableColumn(t, c) ==
    /\ t.cols[c].present
    /\ Cardinality({Cell(t.cols[c], i) : i \in 0..(t.nrows - 1)} \ {NaN}) >= 2

VariableColumns(t) == {c \in DOMAIN t.cols : VariableColumn(t, c)}

\* C13: a returned report has no events (and carries vehicle_id, time_range,
\* dtc_codes and detection_params) when the matrix has fewer than 20 rows or
\* no variable column; with 20 to 29 rows, or fewer than 2 variable columns,
\* every event of the report has detector "changepoint".
C13_DetectorGating ==
    (adPc = "done") =>
        /\ report.returned
        /\ report.vehicle_id = ts.vehicle_id
        /\ report.time_range = ts.time_range
        /\ report.dtc_codes = ts.dtc_codes
        /\ report.detection_params = params
        /\ (ts.nrows < 20 \/ VariableColumns(ts) = {}) => report.events = <<>>
        /\ (ts.nrows \in 20..29 \/ Cardinality(VariableColumns(ts)) < 2) =>
              \A k \in 1..Len(report.events) : report.events[k].detector = "changepoint"

C13_Witness ==
    /\ adPc = "done"
    /\ ts.nrows = 29
    /\ Cardinality(VariableColumns(ts)) >= 2
    /\ Len(report.events) >= 2

\* the lines of the data region: those after the separator that follows the
\* column header, up to the first line that starts with "---" or "Log "
RECURSIVE UntilFooter(_)
UntilFooter(lines) ==
    IF lines = <<>> THEN <<>>
    ELSE IF Head(lines) # <<"">>
            /\ (TextStartsWith(Head(lines)[1], "---")
                \/ TextStartsWith(Head(lines)[1], "Log "))
         THEN <<>>
    ELSE <<Head(lines)>> \o UntilFooter(Tail(lines))

DataRegion(lines) ==
    UntilFooter(SubSeq(lines, FindHeader(lines, 1) + 2, Len(lines)))

\* C14: the data region of parse_log_file ends at the first footer marker
\* ("---" or "Log "): the rows returned are those of the lines before it, and
\* no later line produces a row.
C14_FooterEndsData ==
    parsed.status = "returned" =>
        parsed.rows = ParseLines(DataRegion(logFile),
                                 HeaderColumns(logFile[FindHeader(logFile, 1)]))

(***************************************************************************)
(* Properties of normalize_rows and extract_statistics.                    *)
(***************************************************************************)
Normalized == nzOut # NotNormalized

\* C15: whatever the cells of the rows hold, normalize_rows returns a series
\* for every non-empty row list and positive interval: a row whose timestamp
\* does not parse is dropped, a non-numeric PID cell becomes a missing
\* value, and a malformed GET_DTC / GET_CURRENT_DTC cell contributes the
\* codes the pattern finds in it, or none.
C15_RowContentNeverFails ==
    (Normalized /\ nzIn.rows # <<>> /\ nzIn.interval_seconds > 0) => nzOut.status = "ok"

DtcCodePattern(code) ==
    /\ Len(code) = 5
    /\ code[1] \in {"P", "C", "B", "U"}
    /\ \A k \in 2..5 : code[k] \in UpperHex

NoDuplicates(s) == \A i, j \in 1..Len(s) : s[i] = s[j] => i = j

\* C16: the dtc_codes of a NormalizedTimeSeries hold no duplicate, and every
\* code is upper-case and matches ^[PCBU][0-9A-F]{4}$.
C16_DtcCodesWellFormed ==
    (Normalized /\ nzOut.status = "ok") =>
        /\ NoDuplicates(nzOut.dtc_codes)
        /\ \A k \in 1..Len(nzOut.dtc_codes) :
              /\ nzOut.dtc_codes[k] = Upper(nzOut.dtc_codes[k])
              /\ DtcCodePattern(nzOut.dtc_codes[k])

VehicleIdPattern(id) ==
    \/ id = V_UNKNOWN
    \/ /\ Len(id) = 10
       /\ id[1] = "V" /\ id[2] = "-"
       /\ \A k \in 3..10 : id[k] \in UpperHex

\* the VIN cells of the rows, as raw VINs
RawVins == {_extract_vin(RowGet(row, "VIN", VinPlain(<<>>))) : row \in RowPool} \ {<<>>}

\* C17: the vehicle_id of the series, and of the statistics that copy it,
\* matches ^V-[0-9A-F]{8}$ or is V-UNKNOWN and is never a raw VIN, also when
\* a vehicle_id override is passed.
C17_VehicleIdPseudonymised ==
    /\ (Normalized /\ nzOut.status = "ok") =>
          VehicleIdPattern(nzOut.vehicle_id) /\ nzOut.vehicle_id \notin RawVins
    /\ (statistics # NoStatistics /\ statistics.status = "ok") =>
          VehicleIdPattern(statistics.vehicle_id) /\ statistics.vehicle_id \notin RawVins

\* the timestamps of the rows that parse
ParsedTimes == {RowTime(row) : row \in Range(ParsedRows(nzIn.rows))}

\* C18: the index starts at the earliest parsed timestamp, increases by
\* exactly interval_seconds, ends at the latest parsed timestamp, and
\* time_range is its first and last entry.
C18_IndexSpansParsedRange ==
    (Normalized /\ nzOut.status = "ok" /\ ParsedTimes # {}) =>
        LET index == nzOut.df.index
        IN /\ index # <<>>
           /\ index[1] = SetMin(ParsedTimes)
           /\ \A k \in 1..(Len(index) - 1) : index[k + 1] = index[k] + nzIn.interval_seconds
           /\ index[Len(index)] = SetMax(ParsedTimes)
           /\ nzOut.time_range = <<index[1], index[Len(index)]>>

\* C19: original_sample_count is the number of raw input rows, counted
\* before rows that share a timestamp are merged (stated for inputs in which
\* every timestamp parses, so that no row is dropped before the count).
C19_OriginalSampleCount ==
    (Normalized /\ nzOut.status = "ok" /\ ParsedRows(nzIn.rows) = nzIn.rows) =>
        nzOut.original_sample_count = Len(nzIn.rows)

Extracted == statistics # NoStatistics /\ statistics.status = "ok"

\* number of non-null observations of a column of the normalised matrix
NonNullCount(col) ==
    Cardinality({k \in 1..Len(nzOut.df.cols[col]) : ~IsNaN(nzOut.df.cols[col][k])})

\* C20: the stats mapping has a key for exactly the columns of the matrix
\* with at least one non-null observation, each entry's valid_count is that
\* column's number of non-null observations (and so is positive), and
\* column_units has no key outside the keys of stats.
C20_StatsKeysAndCounts ==
    Extracted =>
        /\ DOMAIN statistics.stats = {col \in DOMAIN nzOut.df.cols : NonNullCount(col) > 0}
        /\ \A col \in DOMAIN statistics.stats :
              /\ statistics.stats[col].valid_count = NonNullCount(col)
              /\ statistics.stats[col].valid_count > 0
        /\ DOMAIN statistics.column_units \subseteq DOMAIN statistics.stats

\* statistics of a matrix with an all-null column and a column with gaps
C20_Witness ==
    /\ Extracted
    /\ \E col \in DOMAIN nzOut.df.cols : col \notin DOMAIN statistics.stats
    /\ \E col \in DOMAIN statistics.stats :
          /\ statistics.stats[col].valid_count >= 2
          /\ statistics.stats[col].valid_count < Len(nzOut.df.index)
    /\ DOMAIN statistics.column_units = DOMAIN statistics.stats

(***************************************************************************)
(* Properties of _merge_overlapping_events.                                *)
(***************************************************************************)
WindowInside(e, m) ==
    m.time_window[1] <= e.time_window[1] /\ e.time_window[2] <= m.time_window[2]

\* the input events merged into the k-th output event, in ascending order
\* of start
MergedInto(k) ==
    SelectSeq(SortByStart(mgIn.events), LAMBDA e : WindowInside(e, mgOut.events[k]))

ScoresOf(events) == [i \in 1..Len(events) |-> events[i].score]

ArithmeticMean(values) ==
    LET total == RSumSeq(values) IN Rat(total[1], total[2] * Len(values))

\* C21: the score of a merged event is the arithmetic mean of the scores of
\* all the events merged into it, for any number of merged events.
C21_MergedScoreIsMean ==
    mgOut.returned =>
        \A k \in 1..Len(mgOut.events) :
            Len(MergedInto(k)) >= 2 =>
                mgOut.events[k].score = ArithmeticMean(ScoresOf(MergedInto(k)))

\* C22: a later event is merged when its start is not after the end of the
\* running merged event, so output windows neither overlap nor touch; each
\* output window is [least start, greatest end] of the events merged into
\* it; every input window lies inside exactly one output window; the output
\* has no more events than the input.
C22_MergedWindows ==
    mgOut.returned =>
        LET out == mgOut.events
        IN /\ \A j, k \in 1..Len(out) :
                 j # k => \/ out[j].time_window[2] < out[k].time_window[1]
                          \/ out[k].time_window[2] < out[j].time_window[1]
           /\ \A k \in 1..Len(out) :
                 /\ MergedInto(k) # <<>>
                 /\ out[k].time_window[1] =
                       SetMin({e.time_window[1] : e \in Range(MergedInto(k))})
                 /\ out[k].time_window[2] =
                       SetMax({e.time_window[2] : e \in Range(MergedInto(k))})
           /\ \A i \in 1..Len(mgIn.events) :
                 Cardinality({k \in 1..Len(out) : WindowInside(mgIn.events[i], out[k])}) = 1
           /\ Len(out) <= Len(mgIn.events)

\* two events whose windows only touch were merged, a third stayed apart
C22_Witness ==
    /\ mgOut.returned
    /\ Len(mgIn.events) = 3
    /\ Len(mgOut.events) = 2
    /\ \E i, j \in 1..3 :
          /\ mgIn.events[i].time_window[2] = mgIn.events[j].time_window[1]
          /\ mgOut.events[1].time_window =
                <<mgIn.events[i].time_window[1], mgIn.events[j].time_window[2]>>

DetectorsOf(events) == {e.detector : e \in Range(events)}

\* C23: the detector of a merged event is the common detector of the events
\* merged into it when they all agree, and "combined" when two of them
\* differ, whatever comes after the two that differ.
C23_MergedDetector ==
    mgOut.returned =>
        \A k \in 1..Len(mgOut.events) :
            IF Cardinality(DetectorsOf(MergedInto(k))) = 1
            THEN mgOut.events[k].detector \in DetectorsOf(MergedInto(k))
            ELSE mgOut.events[k].detector = "combined"

\* a change-point, an outlier run and another change-point became one
\* "combined" event
C23_Witness ==
    /\ mgOut.returned
    /\ \E k \in 1..Len(mgOut.events) :
          /\ Len(MergedInto(k)) = 3
          /\ MergedInto(k)[1].detector = "changepoint"
          /\ MergedInto(k)[2].detector = "isolation_forest"
          /\ MergedInto(k)[3].detector = "changepoint"
          /\ mgOut.events[k].detector = "combined"

RECURSIVE SignalsOf(_)
SignalsOf(events) ==
    IF events = <<>> THEN <<>> ELSE Head(events).signals \o SignalsOf(Tail(events))

FirstIndex(s, x) == SetMin({i \in 1..Len(s) : s[i] = x})

\* C24: the signals of a merged event are the union of the signals of the
\* events merged into it, without duplicates, in order of first appearance
\* when the events are taken in ascending order of start.
C24_MergedSignals ==
    mgOut.returned =>
        \A k \in 1..Len(mgOut.events) :
            Len(MergedInto(k)) >= 2 =>
                LET all == SignalsOf(MergedInto(k))
                    signals == mgOut.events[k].signals
                IN /\ Range(signals) = Range(all)
                   /\ NoDup(signals)
                   /\ \A i, j \in 1..Len(signals) :
                         i < j => FirstIndex(all, signals[i]) < FirstIndex(all, signals[j])

\* a merged event whose inputs share a signal and bring different ones
C24_Witness ==
    /\ mgOut.returned
    /\ \E k \in 1..Len(mgOut.events) :
          /\ Len(MergedInto(k)) >= 2
          /\ Len(mgOut.events[k].signals) >= 3
          /\ Len(SignalsOf(MergedInto(k))) > Len(mgOut.events[k].signals)

(***************************************************************************)
(* Severity of the events of a report.                                     *)
(***************************************************************************)
\* section 4.4.4 applied to the fields of one event, in hundredths:
\* c = 0.40 score + 0.25 min(1, signals / 8) + 0.15 min(1, seconds / 300)
\*     + 0.20 critical
CompositeOf(e) ==
    LET duration == e.time_window[2] - e.time_window[1]
        critical == \E i \in 1..Len(e.signals) : e.signals[i] \in _CRITICAL_SIGNALS
    IN RAdd(RAdd(RMul(<<40, 1>>, e.score),
                 RMul(<<25, 1>>, RMin(ROne, <<Len(e.signals), 8>>))),
            RAdd(RMul(<<15, 1>>, RMin(ROne, <<duration, 300>>)),
                 IF critical THEN <<20, 1>> ELSE RZero))

SeverityOf(e) ==
    IF RLe(<<66, 1>>, CompositeOf(e)) THEN "high"
    ELSE IF RLe(<<33, 1>>, CompositeOf(e)) THEN "medium"
    ELSE "low"

\* C25: every event of a returned report, merged or not, has the severity
\* that the weighted composite of its own score, signals, window and
\* critical signals gives: high from 0.66, medium from 0.33, low below.
C25_SeverityOfOwnFields ==
    report.returned =>
        \A k \in 1..Len(report.events) :
            report.events[k].severity = SeverityOf(report.events[k])

\* a report with a merged and an unmerged event of different severities
C25_Witness ==
    /\ report.returned
    /\ \E j, k \in 1..Len(report.events) :
          /\ report.events[j].detector = "combined"
          /\ report.events[k].detector # "combined"
          /\ report.events[j].severity # report.events[k].severity

(***************************************************************************)
(* The gate of the change-point search.                                    *)
(***************************************************************************)
ChangepointsDone == adPc \in {"outliers", "merge", "done"} /\ columns # <<>>

NonNullValues(col) == DropNa(ColumnValues(ts, col, 0, ts.nrows - 1))

\* C26: the change-point search runs on a variable column exactly when the
\* matrix has at least 20 rows, the column has at least min_segment_length
\* non-null observations and its range is not zero.
C26_SearchGate ==
    ChangepointsDone =>
        \A col \in Range(columns) :
            (ts.nrows >= _MIN_ROWS_CHANGEPOINT /\ SearchRuns(ts, col))
            <=> /\ ts.nrows >= 20
                /\ Len(NonNullValues(col)) >= params.min_segment_length
                /\ SeqMax(NonNullValues(col)) # SeqMin(NonNullValues(col))

(***************************************************************************)
(* Forward fill.                                                           *)
(***************************************************************************)
\* the last non-null raw value of the column at or before time t, if any
LastKnown(raw, col, t) ==
    IF ValidBefore(raw, col, t) = {} THEN NaNValue
    ELSE raw.cols[col][SetMax(ValidBefore(raw, col, t))]

\* C27: with fill_method ffill every cell of the normalised matrix holds
\* the last non-null raw value of its column at or before the grid
\* timestamp, and is null only when the column has none.
C27_ForwardFillLastKnown ==
    (Normalized /\ nzOut.status = "ok" /\ nzIn.fill_method = "ffill") =>
        LET raw == _rows_to_raw_dataframe(nzIn.rows)
        IN \A col \in DOMAIN nzOut.df.cols :
              \A k \in 1..Len(nzOut.df.index) :
                  nzOut.df.cols[col][k] = LastKnown(raw, col, nzOut.df.index[k])

(***************************************************************************)
(* The dynamic values of a clue text.                                      *)
(***************************************************************************)
\* the last condition of the given type, or 0 when the rule has none
LastOfType(rule, type) ==
    LET at == {i \in 1..Len(rule.conditions) : Get(rule.conditions[i], "type", "") = type}
    IN IF at = {} THEN 0 ELSE SetMax(at)

\* the number of events that pass the filters of the last anomaly_check
ExpectedAnomalyCount(rule) ==
    IF LastOfType(rule, "anomaly_check") = 0 THEN 0
    ELSE _eval_anomaly_check(rule.conditions[LastOfType(rule, "anomaly_check")],
                             cgIn.anomalies).count

\* the string of the last dtc_check; for mode prefix the DTCs that start
\* with the prefix, comma-joined in the order of the DTC list
ExpectedMatchedDtcs(rule) ==
    IF LastOfType(rule, "dtc_check") = 0 THEN <<>>
    ELSE LET cond == rule.conditions[LastOfType(rule, "dtc_check")]
         IN IF Get(cond, "mode", "present") = "prefix"
            THEN Join(SelectSeq(cgIn.stats.dtc_codes,
                                LAMBDA code : StartsWith(code, Get(cond, "prefix", <<>>))))
            ELSE _eval_dtc_check(cond, cgIn.stats.dtc_codes).matched_dtcs

\* the template of the rule with the expected values in place
ExpectedText(rule) ==
    FormatMap(rule.template,
              [k \in DOMAIN cgIn.stats.stats \cup {"anomaly_count", "matched_dtcs"} |->
                  IF k = "anomaly_count" THEN NumValue(ExpectedAnomalyCount(rule))
                  ELSE IF k = "matched_dtcs" THEN StrValue(ExpectedMatchedDtcs(rule))
                  ELSE Namespace(cgIn.stats.stats[k])])

UsesDynamic(rule) ==
    \E i \in 1..Len(rule.template) :
        rule.template[i].kind = "field"
        /\ rule.template[i].name \in {"anomaly_count", "matched_dtcs"}

\* C28: in the clue text of a fired rule {anomaly_count} is the count of the
\* last anomaly_check condition of the rule and {matched_dtcs} the string
\* of its last dtc_check condition; without such a condition they render 0
\* and the empty string.
C28_DynamicValuesOfLastCondition ==
    \A c \in Calls :
        \A n \in 1..Len(cgCall[c].matched_clues) :
            LET rule == cgCall[c].rules[cgCall[c].src[n]]
            IN (UsesDynamic(rule) /\ ExpectedText(rule).status = "ok") =>
                   cgCall[c].matched_clues[n].clue = ExpectedText(rule).text

\* a clue of a rule with two anomaly_check and two dtc_check conditions
\* whose results differ, and a clue of a rule without any
C28_Witness ==
    \E c \in Calls :
        /\ Returned(c)
        /\ Len(cgCall[c].report.clues) = 2
        /\ \E n \in 1..2 :
              LET rule == cgCall[c].rules[cgCall[c].src[n]]
                  checks == {i \in 1..Len(rule.conditions) :
                                rule.conditions[i].type = "anomaly_check"}
              IN /\ UsesDynamic(rule)
                 /\ Cardinality(checks) = 2
                 /\ _eval_anomaly_check(rule.conditions[SetMin(checks)],
                                        cgIn.anomalies).count
                       # ExpectedAnomalyCount(rule)
                 /\ ExpectedMatchedDtcs(rule) = P0171
                 /\ cgCall[c].report.clues[n].clue = ExpectedText(rule).text
        /\ \E n \in 1..2 :
              LET rule == cgCall[c].rules[cgCall[c].src[n]]
              IN /\ UsesDynamic(rule)
                 /\ LastOfType(rule, "dtc_check") = 0
                 /\ LastOfType(rule, "anomaly_check") = 0
                 /\ cgCall[c].report.clues[n].clue = ExpectedText(rule).text

\* C29: _merge_overlapping_events applied to its own output returns the
\* same events, in the same order and with every field unchanged.
C29_MergeIdempotent ==
    mgAgain.returned => mgAgain.events = mgOut.events

\* the second call was made on a list of a merged event and another event
C29_Witness ==
    /\ mgAgain.returned
    /\ Len(mgOut.events) = 2
    /\ Len(mgIn.events) = 3
    /\ \E k \in 1..2 : mgOut.events[k].detector = "combined"

(***************************************************************************)
(* A rule in a list and the same rule alone.                               *)
(***************************************************************************)
\* generate_clues on the same statistics and anomalies with the one rule
Alone(rule) ==
    GenerateCluesAlone([cgIn EXCEPT !.rules_given = TRUE, !.rules = <<rule>>])

\* the clues a caller gets from call c: those of the report, none if it raised
CluesOfCall(c) == IF Returned(c) THEN cgCall[c].report.clues ELSE <<>>

\* the positions, among the clues the caller gets, of the clue of the k-th rule
CluesOfRule(c, k) == {n \in 1..Len(CluesOfCall(c)) : cgCall[c].src[n] = k}

\* C30: for each rule of the list the call gives the same clue, or the same
\* absence of a clue, as a call with that rule alone, whatever the other
\* rules of the list are.
C30_RuleAsAlone ==
    \A c \in Calls :
        Ended(c) =>
            \A k \in 1..Len(cgCall[c].rules) :
                LET alone == Alone(cgCall[c].rules[k])
                IN IF alone.status = "done" /\ alone.report.clues # <<>>
                   THEN /\ Cardinality(CluesOfRule(c, k)) = 1
                        /\ \A n \in CluesOfRule(c, k) :
                              CluesOfCall(c)[n] = alone.report.clues[1]
                   ELSE CluesOfRule(c, k) = {}

\* every rule the loop evaluated ended as it does alone: the same clue, no
\* clue, or the same exception
C30_EvaluatedRuleAsAlone ==
    \A c \in Calls :
        \A k \in 1..Len(cgCall[c].trace) :
            LET alone == Alone(cgCall[c].rules[k])
                made == {n \in 1..Len(cgCall[c].matched_clues) : cgCall[c].src[n] = k}
            IN /\ cgCall[c].trace[k].outcome = "raised" <=> alone.status = "raised"
               /\ cgCall[c].trace[k].outcome = "none" <=>
                     (alone.status = "done" /\ alone.report.clues = <<>>)
               /\ \A n \in made : alone.status = "done"
                                  /\ alone.report.clues = <<cgCall[c].matched_clues[n]>>
               /\ cgCall[c].trace[k].outcome = "clue" <=> made # {}

====
